---------------------------- MODULE Spec2Model ----------------------------
(***************************************************************************)
(* Model of the PDF renamer's product code generator                       *)
(* (src/assets/js/modules/productCode.js) and of the Swiss number helpers  *)
(* (src/WebApp/assets/js/utils/helpers.js).                                *)
(*                                                                         *)
(* A JavaScript string is a sequence of UTF-16 code units.  A code unit    *)
(* is written as a one-character TLA+ string when it is printable ASCII    *)
(* and as its code point name ("U+00E4") otherwise.                        *)
(***************************************************************************)
EXTENDS Integers, Sequences, FiniteSets, TLC

VARIABLES
    formData,   \* the form-data record handed to generate
    config,     \* the configuration object handed to generate
    result,     \* outcome of the last call of generate
    calls,      \* number of calls of generate made so far
    first,      \* inputs and output of the first call of generate
    agree,      \* no later call with the first call's inputs returned another output
    groupSep,   \* grouping separator the runtime's locale data has for de-CH
    number,     \* the number handed to formatSwissNumber
    swiss,      \* outcome of formatSwissNumber followed by parseSwissNumber
    fieldName,  \* the field name handed to Validator.validateField
    fieldValue, \* the value handed to Validator.validateField
    file,       \* the file handed to Validator.validateFile
    validation, \* what the last call of the Validator returned
    dirHandle,  \* the directory handle handed to HotfolderAPI.saveToHotfolder
    step,       \* the await at which saveToHotfolder stands
    permission, \* what verifyPermission has returned for the handle
    io,         \* the calls made on the directory, its files and their streams
    saved,      \* how saveToHotfolder has ended
    currentFile, \* the file the application holds (this.currentFile)
    preview,    \* the text of the generatedCode element
    notifications, \* the notifications shown, oldest first
    operation,  \* the last user-triggered operation and the exception it met
    pending,    \* the config operations that stand at an await
    stored,     \* the config the ConfigManager holds
    issued,     \* the config operations in the order the user issued them
    events,     \* number of user events handled so far
    idb,        \* the IndexedDB database HeidelbergPDFRenamer and the handle it keeps
    loaded,     \* how HotfolderAPI.loadSavedHotfolder has ended
    timers,     \* the ids of the notifications whose timeout is pending
    last,       \* the last operation on UIManager.notifications and the list before it
    downloadBtn,          \* whether the download button is disabled
    saveToHotfolderBtn,   \* whether the save-to-hotfolder button is disabled
    hotfolderPath,        \* the text of the hotfolderPath element
    outputs     \* the names under which files were downloaded or written

validatorVars == <<fieldName, fieldValue, file, validation>>

hotfolderVars == <<dirHandle, step, permission, io, saved>>

storeVars == <<idb, loaded>>

uiVars == <<timers, last>>

domVars == <<downloadBtn, saveToHotfolderBtn, hotfolderPath, outputs>>

appVars == <<currentFile, preview, notifications, operation, pending, stored, issued, events,
             storeVars, uiVars, domVars>>

vars == <<formData, config, result, calls, first, agree, groupSep, number, swiss,
          validatorVars, hotfolderVars, appVars>>

-----------------------------------------------------------------------------
(* Characters *)

Digit == {"0", "1", "2", "3", "4", "5", "6", "7", "8", "9"}

UpperSeq == <<"A", "B", "C", "D", "E", "F", "G", "H", "I", "J", "K", "L", "M",
              "N", "O", "P", "Q", "R", "S", "T", "U", "V", "W", "X", "Y", "Z">>

LowerSeq == <<"a", "b", "c", "d", "e", "f", "g", "h", "i", "j", "k", "l", "m",
              "n", "o", "p", "q", "r", "s", "t", "u", "v", "w", "x", "y", "z">>

Range(s) == {s[i] : i \in 1..Len(s)}

Upper == Range(UpperSeq)

Lower == Range(LowerSeq)

\* ä ö ü Ä Ö Ü ß
Umlaut == {"U+00E4", "U+00F6", "U+00FC", "U+00C4", "U+00D6", "U+00DC", "U+00DF"}

\* The code units JavaScript's \s and String.prototype.trim treat as white
\* space (space, tab, line feed, no-break space; the sample used here).
WhiteSpace == {" ", "\t", "\n", "U+00A0"}

\* The allow-list of sanitizeText: [a-zA-Z0-9äöüÄÖÜß\-_]
AllowedChar == Lower \cup Upper \cup Digit \cup Umlaut \cup {"-", "_"}

\* String.prototype.toLowerCase on one code unit.
ToLowerCase(c) ==
    IF c \in Upper
        THEN LowerSeq[CHOOSE i \in 1..Len(UpperSeq) : UpperSeq[i] = c]
    ELSE IF c = "U+00C4" THEN "U+00E4"
    ELSE IF c = "U+00D6" THEN "U+00F6"
    ELSE IF c = "U+00DC" THEN "U+00FC"
    ELSE c

-----------------------------------------------------------------------------
(* Strings *)

\* A missing field: formData[field] is undefined or null.
Null == <<"null">>

RECURSIVE TrimStart(_)
TrimStart(s) ==
    IF s /= <<>> /\ Head(s) \in WhiteSpace THEN TrimStart(Tail(s)) ELSE s

RECURSIVE TrimEnd(_)
TrimEnd(s) ==
    IF s /= <<>> /\ s[Len(s)] \in WhiteSpace
        THEN TrimEnd(SubSeq(s, 1, Len(s) - 1))
        ELSE s

\* String.prototype.trim
Trim(s) == TrimEnd(TrimStart(s))

\* s.replace(/[...]/g, ''): every code unit of the set removed
RemoveAll(s, set) == SelectSeq(s, LAMBDA c : c \notin set)

\* s.replace(/[^...]/g, ''): every code unit outside the set removed
KeepOnly(s, set) == SelectSeq(s, LAMBDA c : c \in set)

\* s.replace(/\s+/g, '-'): every maximal run of white space becomes one '-'
RECURSIVE ReplaceSpaceRuns(_)
ReplaceSpaceRuns(s) ==
    IF s = <<>> THEN <<>>
    ELSE IF Head(s) \in WhiteSpace
        THEN <<"-">> \o ReplaceSpaceRuns(TrimStart(s))
        ELSE <<Head(s)>> \o ReplaceSpaceRuns(Tail(s))

\* s.substring(0, n)
Substring0(s, n) == SubSeq(s, 1, IF Len(s) < n THEN Len(s) ELSE n)

\* The characters of a string written out as one TLA+ string.
RECURSIVE Cat(_)
Cat(s) == IF s = <<>> THEN "" ELSE Head(s) \o Cat(Tail(s))

\* The value of a call: a returned string, or a thrown error.
Return(s) == [threw |-> FALSE, val |-> s]

Throw == [threw |-> TRUE, val |-> <<>>]

-----------------------------------------------------------------------------
(* Numbers: parseInt(s, 10) and Number.prototype.toString *)

\* A JavaScript number that parseInt returns: NaN, or an integer given by its
\* sign and its decimal digits (no leading zero).  A digit string of at most
\* 15 significant digits converts to a double and back without change; every
\* quantity this model parses stays within that.
NaN == [nan |-> TRUE, neg |-> FALSE, digits |-> <<>>]

RECURSIVE DigitPrefix(_)
DigitPrefix(s) ==
    IF s /= <<>> /\ Head(s) \in Digit
        THEN <<Head(s)>> \o DigitPrefix(Tail(s))
        ELSE <<>>

RECURSIVE StripLeadingZeros(_)
StripLeadingZeros(d) ==
    IF Len(d) > 1 /\ Head(d) = "0" THEN StripLeadingZeros(Tail(d)) ELSE d

RECURSIVE StripTrailingZeros(_)
StripTrailingZeros(d) ==
    IF Len(d) > 1 /\ d[Len(d)] = "0"
        THEN StripTrailingZeros(SubSeq(d, 1, Len(d) - 1))
        ELSE d

DigitSeq == <<"0", "1", "2", "3", "4", "5", "6", "7", "8", "9">>

RECURSIVE IntToDigits(_)
IntToDigits(n) ==
    IF n < 10 THEN <<DigitSeq[n + 1]>>
    ELSE IntToDigits(n \div 10) \o <<DigitSeq[(n % 10) + 1]>>

DigitValue(c) == (CHOOSE i \in 1..10 : DigitSeq[i] = c) - 1

RECURSIVE DigitsToInt(_)
DigitsToInt(d) ==
    IF d = <<>> THEN 0
    ELSE 10 * DigitsToInt(SubSeq(d, 1, Len(d) - 1)) + DigitValue(d[Len(d)])

\* parseInt(s, 10): leading white space skipped, an optional sign, then the
\* longest prefix of decimal digits; NaN when that prefix is empty.
ParseInt(s) ==
    LET t == TrimStart(s)
        signed == t /= <<>> /\ Head(t) \in {"+", "-"}
        d == DigitPrefix(IF signed THEN Tail(t) ELSE t)
    IN  IF d = <<>> THEN NaN
        ELSE [nan |-> FALSE, neg |-> signed /\ Head(t) = "-",
              digits |-> StripLeadingZeros(d)]

\* Number.prototype.toString of an integer: plain digits below 10^21,
\* exponential notation (d.ddde+n) from 10^21 on; -0 prints as 0.
NumberToString(x) ==
    IF x.nan THEN <<"N", "a", "N">>
    ELSE IF x.digits = <<"0">> THEN <<"0">>
    ELSE LET sig == StripTrailingZeros(x.digits)
             mag == IF Len(x.digits) <= 21 THEN x.digits
                    ELSE <<Head(sig)>>
                         \o (IF Len(sig) > 1 THEN <<".">> \o Tail(sig) ELSE <<>>)
                         \o <<"e", "+">> \o IntToDigits(Len(x.digits) - 1)
         IN  (IF x.neg THEN <<"-">> ELSE <<>>) \o mag

\* The digits in groups of three from the right, sep between the groups.
RECURSIVE Grouped(_, _)
Grouped(d, sep) ==
    IF Len(d) <= 3 THEN d
    ELSE Grouped(SubSeq(d, 1, Len(d) - 3), sep) \o <<sep>> \o SubSeq(d, Len(d) - 2, Len(d))

\* The grouping separator of Intl.NumberFormat('de-CH') is the runtime's
\* locale data: the apostrophe U+0027 up to CLDR 31, the right single
\* quotation mark U+2019 since CLDR 32.
GroupingSeparators == {"'", "U+2019"}

\* new Intl.NumberFormat('de-CH', {useGrouping: true}).format(number), for a
\* natural number
formatSwissNumber(n) == Grouped(IntToDigits(n), groupSep)

\* parseInt(formattedNumber.replace(/['\s]/g, ''), 10)
parseSwissNumber(formattedNumber) ==
    ParseInt(RemoveAll(formattedNumber, {"'"} \cup WhiteSpace))

-----------------------------------------------------------------------------
(* Configuration *)

\* A list of the config object: absent (config.machines is undefined) or an
\* array of entries {name, code}.
NoList == [defined |-> FALSE, items |-> <<>>]

List(items) == [defined |-> TRUE, items |-> items]

Entry(name, code) == [name |-> name, code |-> code]

\* FindByCode with the entries matched by their name.
FindByName(list, value) ==
    IF list.defined /\ \E i \in 1..Len(list.items) : list.items[i].name = value
        THEN CHOOSE i \in 1..Len(list.items) :
                /\ list.items[i].name = value
                /\ \A j \in 1..(i - 1) : list.items[j].name /= value
        ELSE 0

\* Array.prototype.find(e => e.code === value): the index of the first entry
\* with that code, 0 when there is none; the ?. makes an absent list find
\* nothing.
FindByCode(list, value) ==
    IF list.defined /\ \E i \in 1..Len(list.items) : list.items[i].code = value
        THEN CHOOSE i \in 1..Len(list.items) :
                /\ list.items[i].code = value
                /\ \A j \in 1..(i - 1) : list.items[j].code /= value
        ELSE 0

-----------------------------------------------------------------------------
(* ProductCodeGenerator *)

requiredFields == <<"auftragsnummer", "kunde", "auftragsposition", "maschine",
                    "auflage", "produkt", "papierart", "papiername">>

\* validateInput without the trim: a field of white space counts as filled in.
validateInputNoTrim(fd) ==
    \A i \in 1..Len(requiredFields) :
        LET value == fd[requiredFields[i]]
        IN  value /= Null /\ value /= <<>>

\* value && value.toString().trim() !== ''
validateInput(fd) ==
    \A i \in 1..Len(requiredFields) :
        LET value == fd[requiredFields[i]]
        IN  value /= Null /\ value /= <<>> /\ Trim(value) /= <<>>

\* buildAuftragsTeil testing the untrimmed order number for its 'A'.
buildAuftragsTeilUntrimmed(fd) ==
    IF fd.auftragsnummer = Null \/ fd.auftragsposition = Null THEN Throw
    ELSE LET auftragsnummer == Trim(fd.auftragsnummer)
             position == Trim(fd.auftragsposition)
             cleanAuftrag == IF fd.auftragsnummer /= <<>> /\ Head(fd.auftragsnummer) = "A"
                                THEN auftragsnummer
                                ELSE <<"A">> \o auftragsnummer
         IN  Return(cleanAuftrag \o <<"-">> \o position)

\* auftragsnummer.trim() and auftragsposition.toString().trim() throw a
\* TypeError on a missing field.
buildAuftragsTeil(fd) ==
    IF fd.auftragsnummer = Null \/ fd.auftragsposition = Null THEN Throw
    ELSE LET auftragsnummer == Trim(fd.auftragsnummer)
             position == Trim(fd.auftragsposition)
             cleanAuftrag == IF auftragsnummer /= <<>> /\ Head(auftragsnummer) = "A"
                                THEN auftragsnummer
                                ELSE <<"A">> \o auftragsnummer
         IN  Return(cleanAuftrag \o <<"-">> \o position)

MaxKundeLength == 20

\* sanitizeText cutting to 20 characters before it removes characters.
sanitizeTextCutFirst(text) ==
    ReplaceSpaceRuns(KeepOnly(Substring0(Trim(text), MaxKundeLength), AllowedChar))

sanitizeText(text) ==
    Substring0(ReplaceSpaceRuns(KeepOnly(Trim(text), AllowedChar)), MaxKundeLength)

getMachineCode(machineValue, cfg) ==
    LET i == FindByCode(cfg.machines, machineValue)
    IN  IF i /= 0 THEN cfg.machines.items[i].code ELSE machineValue

getProductCode(productValue, cfg) ==
    LET i == FindByCode(cfg.products, productValue)
    IN  IF i /= 0 THEN cfg.products.items[i].code ELSE productValue

getPaperCode(paperValue, cfg) ==
    LET i == FindByCode(cfg.papers, paperValue)
    IN  IF i /= 0 THEN cfg.papers.items[i].code ELSE paperValue

Gestrichen == <<"g", "e", "s", "t", "r", "i", "c", "h", "e", "n">>

Ungestrichen == <<"u", "n", "g", "e", "s", "t", "r", "i", "c", "h", "e", "n">>

Constructor == <<"c", "o", "n", "s", "t", "r", "u", "c", "t", "o", "r">>

ProtoKey == <<"_", "_", "p", "r", "o", "t", "o", "_", "_">>

\* String(Object): the source text of a built-in function (as V8 prints it)
ObjectFunctionText ==
    <<"f", "u", "n", "c", "t", "i", "o", "n", " ", "O", "b", "j", "e", "c", "t",
      "(", ")", " ", "{", " ", "[", "n", "a", "t", "i", "v", "e", " ", "c", "o",
      "d", "e", "]", " ", "}">>

\* String(Object.prototype)
ObjectPrototypeText ==
    <<"[", "o", "b", "j", "e", "c", "t", " ", "O", "b", "j", "e", "c", "t", "]">>

\* typeMap[papierart] as the template literal prints it: typeMap is an object
\* literal, so a key it does not own is looked up on Object.prototype
\* (constructor, __proto__), and only then is the value undefined.
typeMapLookup(papierart) ==
    IF papierart = Gestrichen THEN [truthy |-> TRUE, text |-> <<"g", "_", "s">>]
    ELSE IF papierart = Ungestrichen THEN [truthy |-> TRUE, text |-> <<"u", "_", "s">>]
    ELSE IF papierart = Constructor THEN [truthy |-> TRUE, text |-> ObjectFunctionText]
    ELSE IF papierart = ProtoKey THEN [truthy |-> TRUE, text |-> ObjectPrototypeText]
    ELSE [truthy |-> FALSE, text |-> <<>>]

\* typeMap[papierart] || `${papierart.charAt(0).toLowerCase()}_s`
getPaperTypeCode(papierart) ==
    LET mapped == typeMapLookup(papierart)
        charAt0 == IF papierart = <<>> THEN <<>> ELSE <<ToLowerCase(Head(papierart))>>
    IN  IF mapped.truthy THEN mapped.text ELSE charAt0 \o <<"_", "s">>

\* text.trim() throws a TypeError on a missing field.
buildKundenTeil(fd, cfg) ==
    IF fd.kunde = Null THEN Throw
    ELSE Return(sanitizeText(fd.kunde) \o <<"-">> \o getProductCode(fd.produkt, cfg))

\* papierart.charAt throws a TypeError on a missing field.
buildMaschineTeil(fd, cfg) ==
    IF fd.papierart = Null THEN Throw
    ELSE Return(getMachineCode(fd.maschine, cfg) \o <<"_">>
                \o getPaperTypeCode(fd.papierart) \o <<"_">>
                \o getPaperCode(fd.papiername, cfg))

\* buildAuflageTeil without the removal of the apostrophes.
buildAuflageTeilKeepApostrophe(fd) ==
    IF fd.auflage = Null THEN Throw
    ELSE LET auflageStr == RemoveAll(fd.auflage, WhiteSpace)
             auflageNum == ParseInt(auflageStr)
         IN  IF auflageNum.nan THEN Throw ELSE Return(NumberToString(auflageNum))

buildAuflageTeil(fd) ==
    IF fd.auflage = Null THEN Throw
    ELSE LET auflageStr == RemoveAll(RemoveAll(fd.auflage, {"'"}), WhiteSpace)
             auflageNum == ParseInt(auflageStr)
         IN  IF auflageNum.nan THEN Throw ELSE Return(NumberToString(auflageNum))

buildPapierTeil(fd, cfg) == Return(<<"D", "-">> \o getPaperCode(fd.papiername, cfg))

buildCodeParts(fd, cfg) ==
    [auftragsTeil |-> buildAuftragsTeil(fd),
     kundenTeil   |-> buildKundenTeil(fd, cfg),
     maschineTeil |-> buildMaschineTeil(fd, cfg),
     auflageTeil  |-> buildAuflageTeil(fd),
     papierTeil   |-> buildPapierTeil(fd, cfg)]

\* assembleCode without the trailing '#'.
assembleCodeNoTrailer(parts) ==
    parts.auftragsTeil.val \o <<"#">> \o parts.kundenTeil.val \o <<"#">>
    \o parts.maschineTeil.val \o <<"#">> \o parts.auflageTeil.val \o <<"#">>
    \o parts.papierTeil.val

\* [five parts].join('#') + '#'
assembleCode(parts) ==
    parts.auftragsTeil.val \o <<"#">> \o parts.kundenTeil.val \o <<"#">>
    \o parts.maschineTeil.val \o <<"#">> \o parts.auflageTeil.val \o <<"#">>
    \o parts.papierTeil.val \o <<"#">>

\* The body of generate's try block.
generateBody(fd, cfg) ==
    IF ~validateInput(fd) THEN Return(<<>>)
    ELSE LET parts == buildCodeParts(fd, cfg)
         IN  IF \E k \in DOMAIN parts : parts[k].threw
                THEN Throw
                ELSE Return(assembleCode(parts))

\* generate: the try block, and the catch that turns every error into ''.
generate(fd, cfg) ==
    LET r == generateBody(fd, cfg)
    IN  IF r.threw THEN Return(<<>>) ELSE r

-----------------------------------------------------------------------------
(* Inputs *)

A12345 == <<"A", "1", "2", "3", "4", "5">>

TestKunde == <<"T", "e", "s", "t", "K", "u", "n", "d", "e">>

CX75 == <<"C", "X", "7", "5">>

BRFPP == <<"B", "R", "F", "P", "P">>

NoSat170 == <<"N", "o", "S", "a", "t", "1", "7", "0">>

\* Broschüre
Broschuere == <<"B", "r", "o", "s", "c", "h", "U+00FC", "r", "e">>

Karton == <<"K", "a", "r", "t", "o", "n">>

Custom == <<"c", "u", "s", "t", "o", "m">>

\* exampleData of generateExample, with the quantity written 1'200
ExampleForm ==
    [auftragsnummer   |-> A12345,
     kunde            |-> TestKunde,
     auftragsposition |-> <<"1">>,
     maschine         |-> CX75,
     auflage          |-> <<"1", "'", "2", "0", "0">>,
     produkt          |-> BRFPP,
     papierart        |-> Ungestrichen,
     papiername       |-> NoSat170]

\* exampleConfig of generateExample
ExampleConfig ==
    [machines |-> List(<<Entry(CX75, CX75)>>),
     products |-> List(<<Entry(Broschuere, BRFPP)>>),
     papers   |-> List(<<Entry(NoSat170, NoSat170)>>)]

\* {}: a config object without any list
EmptyConfig == [machines |-> NoList, products |-> NoList, papers |-> NoList]

\* A config whose entries are named like form values but carry other codes.
OtherConfig ==
    [machines |-> List(<<Entry(<<"Z", "Z">>, <<"M", "2">>), Entry(<<"M", "1">>, CX75)>>),
     products |-> List(<<Entry(<<"Z", "Z">>, <<"P", "2">>), Entry(BRFPP, <<"P", "1">>)>>),
     papers   |-> List(<<>>)]

Configs == {ExampleConfig, EmptyConfig, OtherConfig}

Fields == Range(requiredFields)

\* The values a caller puts into a field besides the example's.
FieldValues(f) ==
    CASE f = "auftragsnummer" ->
            {Null, <<>>, <<" ">>, <<" ", "A", "7", " ">>, <<"7">>, <<"a", "7">>}
      [] f = "kunde" ->
            {Null, <<" ", "\t">>, <<" ", "M", "&", " ", "M", " ">>}
      [] f = "auftragsposition" ->
            {<<>>, <<" ", "2", " ">>, <<"1", "0", "0", "0">>}
      [] f = "maschine" ->
            {Null, <<"\t">>, <<"Z", "Z">>}
      [] f = "auflage" ->
            {<<>>, <<"'">>, <<"x">>, <<"1", "2", " ", "0", "0", "0">>,
             <<"0", "0", "7">>, <<"1", "2", "a">>}
      [] f = "produkt" ->
            {<<>>, <<"Z", "Z">>}
      [] f = "papierart" ->
            {Null, <<" ">>, Gestrichen, Karton, Custom, Constructor, ProtoKey}
      [] f = "papiername" ->
            {<<>>, <<"Q", "Q">>}

\* Number of fields in which a form-data record may differ from the example.
MaxChanged == 2

RECURSIVE Changed(_)
Changed(n) ==
    IF n = 0 THEN {ExampleForm}
    ELSE LET less == Changed(n - 1)
         IN  less \cup UNION {{[fd EXCEPT ![f] = v] : fd \in less, v \in FieldValues(f)} :
                                    f \in Fields}

FormInputs == Changed(MaxChanged)

-----------------------------------------------------------------------------
(* Calls of generate *)

NotCalled == [called |-> FALSE, threw |-> FALSE, val |-> <<>>]

\* What is remembered of the first call: its inputs and its output, whether a
\* call with other inputs followed it, and whether a call with its inputs
\* followed that one.
NoCall ==
    [made |-> FALSE, fd |-> ExampleForm, cfg |-> EmptyConfig, out |-> NotCalled,
     other |-> FALSE, again |-> FALSE]

\* Number of calls of generate in one run.
MaxCalls == 3

NoSwiss == [done |-> FALSE, text |-> <<>>, parsed |-> NaN]

Remember(out) ==
    /\ first' = IF ~first.made
                    THEN [NoCall EXCEPT !.made = TRUE, !.fd = formData,
                                        !.cfg = config, !.out = out]
                ELSE IF first.fd = formData /\ first.cfg = config
                    THEN [first EXCEPT !.again = first.other]
                ELSE [first EXCEPT !.other = TRUE]
    /\ agree' = (agree /\ (first.made /\ first.fd = formData /\ first.cfg = config
                            => first.out = out))

\* Generate with a generator that keeps the parts of the former call.
GenerateAccumulating ==
    /\ calls < MaxCalls
    /\ LET r == generate(formData, config)
           out == [called |-> TRUE, threw |-> r.threw, val |-> result.val \o r.val]
       IN  result' = out /\ Remember(out)
    /\ calls' = calls + 1
    /\ UNCHANGED <<formData, config, groupSep, number, swiss, validatorVars,
                   hotfolderVars, appVars>>

\* One call productCodeGenerator.generate(formData, config).  generate reads
\* its two arguments only and assigns to neither, nor to a field of the
\* generator.
Generate ==
    /\ calls < MaxCalls
    /\ LET r == generate(formData, config)
           out == [called |-> TRUE, threw |-> r.threw, val |-> r.val]
       IN  result' = out /\ Remember(out)
    /\ calls' = calls + 1
    /\ UNCHANGED <<formData, config, groupSep, number, swiss, validatorVars,
                   hotfolderVars, appVars>>

NoGenerator == result = NotCalled /\ calls = 0 /\ first = NoCall /\ agree = TRUE

NoSwissNumber == groupSep = "'" /\ number = 0 /\ swiss = NoSwiss

\* A JavaScript value handed to the Validator: a string, a number (str is
\* what toString() makes of it), or the missing value (undefined or null).
Str(s) == [type |-> "string", str |-> s]

Num(digits) == [type |-> "number", str |-> digits]

Undefined == [type |-> "undefined", str |-> <<>>]

NoFile == [present |-> FALSE, size |-> 0, type |-> "", name |-> <<>>]

NotValidated == [called |-> FALSE]

\* No directory handle: this.hotfolderHandle = null
NoHandle == [present |-> FALSE, query |-> "", request |-> ""]

\* saveToHotfolder has neither returned nor thrown
NotSaved == [done |-> FALSE, threw |-> FALSE, returned |-> FALSE, message |-> <<>>]

NoHotfolder ==
    /\ dirHandle = NoHandle
    /\ step = "idle"
    /\ permission = "unknown"
    /\ io = <<>>
    /\ saved = NotSaved

\* The text updateProductCode shows in place of a code
Placeholder == "Bitte alle Felder ausf<U+00FC>llen..."

\* No error met: the operation ran through
NoError == [name |-> "", message |-> ""]

NoOperation == [op |-> "", raised |-> FALSE, error |-> NoError, attempts |-> 0, shown |-> <<>>]

\* The database: not created, created without the object store 'handles', or
\* with it; and the handle kept under the key 'hotfolder'
Database(db, handle) == [db |-> db, handle |-> handle]

NotLoaded == [done |-> FALSE, threw |-> FALSE, val |-> NoHandle]

NoStore == idb = Database("none", NoHandle) /\ loaded = NotLoaded

NoLast == [op |-> "", id |-> 0, before |-> <<>>]

NoUi == timers = {} /\ last = NoLast

\* The hotfolderPath element before a handle name was written to it
NoHotfolderPath == ""

NoDom ==
    /\ downloadBtn = [disabled |-> TRUE]
    /\ saveToHotfolderBtn = [disabled |-> TRUE]
    /\ hotfolderPath = NoHotfolderPath
    /\ outputs = <<>>

NoApp ==
    /\ currentFile = NoFile
    /\ preview = Placeholder
    /\ notifications = <<>>
    /\ operation = NoOperation
    /\ pending = {}
    /\ stored = EmptyConfig
    /\ issued = <<>>
    /\ events = 0
    /\ NoStore
    /\ NoUi
    /\ NoDom

NoValidator ==
    fieldName = "" /\ fieldValue = Undefined /\ file = NoFile /\ validation = NotValidated

Init ==
    /\ formData \in FormInputs
    /\ config \in Configs
    /\ NoGenerator
    /\ NoHotfolder
    /\ NoApp
    /\ NoValidator
    /\ NoSwissNumber

Next == Generate

\* generate on form-data records near the example, under three configs
Spec == Init /\ [][Next]_vars

-----------------------------------------------------------------------------
(* A caller that changes the form data and the config between the calls *)

CallerValues(f) ==
    CASE f = "auftragsnummer" -> {A12345, <<"7">>}
      [] f = "auflage" -> {<<"1", "'", "2", "0", "0">>, <<"x">>}
      [] f = "papierart" -> {Ungestrichen, Null}
      [] OTHER -> {}

SetField ==
    \E f \in Fields : \E v \in CallerValues(f) :
        /\ formData[f] /= v
        /\ formData' = [formData EXCEPT ![f] = v]
        /\ UNCHANGED <<config, result, calls, first, agree, groupSep, number, swiss, validatorVars,
                   hotfolderVars, appVars>>

SetConfig ==
    \E c \in Configs :
        /\ config /= c
        /\ config' = c
        /\ UNCHANGED <<formData, result, calls, first, agree, groupSep, number, swiss, validatorVars,
                   hotfolderVars, appVars>>

InitCalls ==
    /\ formData = ExampleForm
    /\ config = ExampleConfig
    /\ NoGenerator
    /\ NoHotfolder
    /\ NoApp
    /\ NoValidator
    /\ NoSwissNumber

NextCalls == Generate \/ SetField \/ SetConfig

SpecCalls == InitCalls /\ [][NextCalls]_vars

-----------------------------------------------------------------------------
(* generate on long customer names *)

KundeChars == {"a", "&", " ", "U+00E4"}

\* Longest run of one character in a customer name.
MaxRun == 21

\* Length of what follows the run.
MaxTail == 2

RECURSIVE Repeat(_, _)
Repeat(c, n) == IF n = 0 THEN <<>> ELSE <<c>> \o Repeat(c, n - 1)

RECURSIVE Words(_, _)
Words(chars, n) ==
    IF n = 0 THEN {<<>>}
    ELSE LET less == Words(chars, n - 1)
         IN  less \cup {w \o <<c>> : w \in less, c \in chars}

KundeInputs ==
    {head \o Repeat(c, n) \o tail :
        head \in {<<>>, <<" ">>}, c \in {"a", "&", " "}, n \in 0..MaxRun,
        tail \in Words(KundeChars, MaxTail)}

InitKunde ==
    /\ formData \in {[ExampleForm EXCEPT !.kunde = k] : k \in KundeInputs}
    /\ config = ExampleConfig
    /\ NoGenerator
    /\ NoHotfolder
    /\ NoApp
    /\ NoValidator
    /\ NoSwissNumber

SpecKunde == InitKunde /\ [][Next]_vars

-----------------------------------------------------------------------------
(* generate on long quantities *)

\* Most zeros that follow the leading digits of a quantity.
MaxZeros == 22

QuantityHeads ==
    {<<"1">>, <<"9">>, <<"1", "2">>, <<"0", "0", "7">>, <<"1", "2", "5">>}

AuflageInputs ==
    {Grouped(h \o Repeat("0", z), sep) :
        h \in QuantityHeads, z \in 0..MaxZeros, sep \in {"'", " "}}
    \cup {h \o Repeat("0", z) : h \in QuantityHeads, z \in 0..MaxZeros}

InitAuflage ==
    /\ formData \in {[ExampleForm EXCEPT !.auflage = a] : a \in AuflageInputs}
    /\ config = ExampleConfig
    /\ NoGenerator
    /\ NoHotfolder
    /\ NoApp
    /\ NoValidator
    /\ NoSwissNumber

SpecAuflage == InitAuflage /\ [][Next]_vars

-----------------------------------------------------------------------------
(* formatSwissNumber and parseSwissNumber *)

\* PRODUCT_CODE.MAX_AUFLAGE
MAX_AUFLAGE == 1000000

\* The numbers 1..MaxSmall are formatted, and some up to MAX_AUFLAGE.
MaxSmall == 1500

SwissNumbers ==
    (1..MaxSmall) \cup {12345, 999999, MAX_AUFLAGE}
    \cup {k * 1000 : k \in 1..MaxSmall \div 10}

\* parseSwissNumber(formatSwissNumber(number))
RoundTrip ==
    /\ ~swiss.done
    /\ LET text == formatSwissNumber(number)
       IN  swiss' = [done |-> TRUE, text |-> text, parsed |-> parseSwissNumber(text)]
    /\ UNCHANGED <<formData, config, result, calls, first, agree, groupSep, number,
                   validatorVars,
                   hotfolderVars, appVars>>

InitSwiss ==
    /\ formData = ExampleForm
    /\ config = ExampleConfig
    /\ NoGenerator
    /\ NoHotfolder
    /\ NoApp
    /\ NoValidator
    /\ groupSep \in GroupingSeparators
    /\ number \in SwissNumbers
    /\ swiss = NoSwiss

NextSwiss == RoundTrip

SpecSwiss == InitSwiss /\ [][NextSwiss]_vars

-----------------------------------------------------------------------------
(* What the claims speak of *)

IsPrefix(p, s) == Len(p) <= Len(s) /\ SubSeq(s, 1, Len(p)) = p

IsSuffix(p, s) == Len(p) <= Len(s) /\ SubSeq(s, Len(s) - Len(p) + 1, Len(s)) = p

\* s.split(c)
RECURSIVE Split(_, _)
Split(s, c) ==
    IF \E i \in 1..Len(s) : s[i] = c
        THEN LET i == CHOOSE k \in 1..Len(s) : s[k] = c /\ \A j \in 1..(k - 1) : s[j] /= c
             IN  <<SubSeq(s, 1, i - 1)>> \o Split(SubSeq(s, i + 1, Len(s)), c)
        ELSE <<s>>

\* A required field is populated: present, and more than white space.
Populated(fd) == \A f \in Fields : fd[f] /= Null /\ Trim(fd[f]) /= <<>>

Separator == {"'"} \cup WhiteSpace

\* A quantity written as decimal digits with apostrophes and white space.
WrittenQuantity(a) ==
    /\ a /= Null
    /\ \A i \in 1..Len(a) : a[i] \in Digit \cup Separator
    /\ \E i \in 1..Len(a) : a[i] \in Digit

\* The decimal representation of the integer a written quantity stands for.
QuantityOf(a) == StripLeadingZeros(RemoveAll(a, Separator))

\* The order number with its prefix letter.
OrderOf(fd) ==
    LET n == Trim(fd.auftragsnummer)
    IN  IF n /= <<>> /\ Head(n) = "A" THEN n ELSE <<"A">> \o n

NoMatch(list, value) ==
    ~list.defined \/ \A i \in 1..Len(list.items) : list.items[i].code /= value

\* C1: for a form-data record with all eight fields populated and a numeric
\* quantity, and any config, generate returns
\* <Order>-<Position>#<Customer>-<ProductCode>#<Machine>_<PaperTypeTag>_<PaperCode>#<Quantity>#D-<PaperCode>#
\* with the same paper code at both places and one trailing '#'.
C1_Format ==
    result.called /\ Populated(formData) /\ WrittenQuantity(formData.auflage)
    => /\ ~result.threw
       /\ result.val =
            OrderOf(formData) \o <<"-">> \o Trim(formData.auftragsposition) \o <<"#">>
            \o sanitizeText(formData.kunde) \o <<"-">>
            \o getProductCode(formData.produkt, config) \o <<"#">>
            \o getMachineCode(formData.maschine, config) \o <<"_">>
            \o getPaperTypeCode(formData.papierart) \o <<"_">>
            \o getPaperCode(formData.papiername, config) \o <<"#">>
            \o buildAuflageTeil(formData).val \o <<"#">>
            \o <<"D", "-">> \o getPaperCode(formData.papiername, config) \o <<"#">>

C1_Witness ==
    /\ result.called /\ Populated(formData) /\ WrittenQuantity(formData.auflage)
    /\ formData.auftragsnummer = <<"7">>
    /\ formData.auflage = <<"1", "2", " ", "0", "0", "0">>
    /\ config = OtherConfig

\* C2: the example record (quantity 1'200) with a config holding the matching
\* machine, product and paper entries yields
\* A12345-1#TestKunde-BRFPP#CX75_u_s_NoSat170#1200#D-NoSat170#
C2_Example ==
    /\ result.called
    /\ formData = ExampleForm
    /\ ~NoMatch(config.machines, formData.maschine)
    /\ ~NoMatch(config.products, formData.produkt)
    /\ ~NoMatch(config.papers, formData.papiername)
    => Cat(result.val) = "A12345-1#TestKunde-BRFPP#CX75_u_s_NoSat170#1200#D-NoSat170#"

C2_Witness == result.called /\ formData = ExampleForm /\ config = ExampleConfig

\* C3: when one of the eight required fields is missing, empty or only white
\* space, generate returns the empty string and raises no error.
C3_MissingField ==
    result.called /\ ~Populated(formData) => result.val = <<>> /\ ~result.threw

C3_Witness ==
    /\ result.called
    /\ formData.kunde = <<" ", "\t">>
    /\ formData.papierart = Null

\* C5: the order segment starts with 'A': the trimmed order number as it is when
\* it begins with 'A', with 'A' put in front otherwise, then '-' and the trimmed
\* position.
C5_OrderPrefix ==
    result.called /\ result.val /= <<>>
    => /\ Head(result.val) = "A"
       /\ Split(result.val, "#")[1]
            = (IF IsPrefix(<<"A">>, Trim(formData.auftragsnummer))
                  THEN Trim(formData.auftragsnummer)
                  ELSE <<"A">> \o Trim(formData.auftragsnummer))
              \o <<"-">> \o Trim(formData.auftragsposition)

C5_Witness ==
    /\ result.called /\ result.val /= <<>>
    /\ formData.auftragsnummer = <<" ", "A", "7", " ">>
    /\ formData.auftragsposition = <<" ", "2", " ">>

CustomerSegment ==
    LET seg == Split(result.val, "#")[2]
    IN  SubSeq(seg, 1, Len(seg) - Len(formData.produkt) - 1)

PaperTypeTag ==
    LET seg == Split(result.val, "#")[3]
    IN  SubSeq(seg, Len(formData.maschine) + 2, Len(seg) - Len(formData.papiername) - 1)

\* C7: the paper-type tag is g_s for 'gestrichen', u_s for 'ungestrichen' and
\* for any other non-empty value its lower-cased first character followed by
\* '_s'; it is always 3 characters long.
C7_PaperTypeTag ==
    result.called /\ Populated(formData) /\ WrittenQuantity(formData.auflage)
    => /\ Len(PaperTypeTag) = 3
       /\ PaperTypeTag =
            (IF formData.papierart = Gestrichen THEN <<"g", "_", "s">>
             ELSE IF formData.papierart = Ungestrichen THEN <<"u", "_", "s">>
             ELSE <<ToLowerCase(Head(formData.papierart)), "_", "s">>)

\* C7 but for the values that name a property of Object.prototype.
C7_OwnKeysOnly ==
    result.called /\ Populated(formData) /\ WrittenQuantity(formData.auflage)
        /\ formData.papierart \notin {Constructor, ProtoKey}
    => /\ Len(PaperTypeTag) = 3
       /\ PaperTypeTag =
            (IF formData.papierart = Gestrichen THEN <<"g", "_", "s">>
             ELSE IF formData.papierart = Ungestrichen THEN <<"u", "_", "s">>
             ELSE <<ToLowerCase(Head(formData.papierart)), "_", "s">>)

\* C8: for a quantity written as decimal digits with apostrophes and white
\* space, the quantity segment is the decimal representation of the same
\* integer, without any separator.
C8_Quantity ==
    result.called /\ WrittenQuantity(formData.auflage)
    => /\ result.val /= <<>>
       /\ Split(result.val, "#")[4] = QuantityOf(formData.auflage)

\* C8 for the quantities below 10^21.
C8_Below1e21 ==
    result.called /\ WrittenQuantity(formData.auflage)
        /\ Len(QuantityOf(formData.auflage)) <= 21
    => /\ result.val /= <<>>
       /\ Split(result.val, "#")[4] = QuantityOf(formData.auflage)

\* C9: parseSwissNumber(formatSwissNumber(n)) = n for every integer n in
\* 1..1000000.
C9_RoundTrip ==
    swiss.done
    => /\ ~swiss.parsed.nan
       /\ ~swiss.parsed.neg
       /\ DigitsToInt(swiss.parsed.digits) = number

\* C9 where the runtime groups with the apostrophe U+0027.
C9_Apostrophe ==
    swiss.done /\ groupSep = "'"
    => /\ ~swiss.parsed.nan
       /\ ~swiss.parsed.neg
       /\ DigitsToInt(swiss.parsed.digits) = number

\* C10: a machine, product or paper value for which the config list holds no
\* entry with that code (or the list is absent) is emitted as it was put in, and
\* no error is raised.
C10_RawFallback ==
    result.called /\ Populated(formData) /\ WrittenQuantity(formData.auflage)
    => LET seg == Split(result.val, "#")
       IN  /\ ~result.threw
           /\ Len(seg) = 6
           /\ NoMatch(config.machines, formData.maschine)
                => IsPrefix(formData.maschine \o <<"_">>, seg[3])
           /\ NoMatch(config.products, formData.produkt)
                => IsSuffix(<<"-">> \o formData.produkt, seg[2])
           /\ NoMatch(config.papers, formData.papiername)
                => /\ IsSuffix(<<"_">> \o formData.papiername, seg[3])
                   /\ seg[5] = <<"D", "-">> \o formData.papiername

C10_Witness ==
    /\ result.called /\ result.val /= <<>>
    /\ formData.maschine = <<"Z", "Z">>
    /\ formData.papiername = <<"Q", "Q">>
    /\ config = OtherConfig


-----------------------------------------------------------------------------
(* Validator (src/assets/js/modules/ui.js): the rule table *)

\* A pattern of the rule table has the form ^prefix[class]+$ : the literal
\* prefix (empty but for the order number's A), then one or more code units
\* of the class.
Pattern(prefix, class) == [prefix |-> prefix, class |-> class]

NoPattern == Pattern(<<>>, {})

\* A pattern without its class and end anchor: the prefix and anything after it.
TestPrefixOnly(pattern, s) ==
    /\ Len(s) > Len(pattern.prefix)
    /\ SubSeq(s, 1, Len(pattern.prefix)) = pattern.prefix

\* pattern.test(s)
Test(pattern, s) ==
    /\ Len(s) > Len(pattern.prefix)
    /\ SubSeq(s, 1, Len(pattern.prefix)) = pattern.prefix
    /\ \A i \in (Len(pattern.prefix) + 1)..Len(s) : s[i] \in pattern.class

\* [a-zA-Z0-9<umlauts>\s\-_.]
NameClass == Lower \cup Upper \cup Digit \cup Umlaut \cup WhiteSpace \cup {"-", "_", "."}

\* [A-Z0-9_-]
CodeClass == Upper \cup Digit \cup {"_", "-"}

\* [A-Za-z0-9_-]
PaperClass == Upper \cup Lower \cup Digit \cup {"_", "-"}

\* A rule set.  An absent minLength or maxLength is 0 (the code tests them
\* for truthiness); hasPattern, hasMin, hasMax and hasEnum tell whether the
\* rule set has the property at all.
Rule(pattern, minLength, maxLength, message) ==
    [required |-> TRUE, hasPattern |-> TRUE, pattern |-> pattern,
     minLength |-> minLength, maxLength |-> maxLength,
     hasMin |-> FALSE, min |-> 0, hasMax |-> FALSE, max |-> 0,
     hasEnum |-> FALSE, enum |-> <<>>, message |-> message]

MAX_POSITION == 999

getValidationRules ==
    [auftragsnummer |->
        Rule(Pattern(<<"A">>, Digit), 2, 20,
             "Auftragsnummer muss mit \"A\" beginnen und Zahlen enthalten (z.B. A12345)"),
     kunde |->
        Rule(Pattern(<<>>, NameClass \cup {"&"}), 1, 50,
             "Kundenname darf nur Buchstaben, Zahlen und die Zeichen - _ & . enthalten"),
     auftragsposition |->
        [Rule(Pattern(<<>>, Digit), 0, 0,
              "Auftragsposition muss eine Zahl zwischen 0 und 999 sein")
            EXCEPT !.hasMin = TRUE, !.min = 0, !.hasMax = TRUE, !.max = MAX_POSITION],
     auflage |->
        [Rule(Pattern(<<>>, Digit \cup {"'"} \cup WhiteSpace), 0, 0,
              "Auflage muss eine positive Zahl sein (z.B. 1'200)")
            EXCEPT !.hasMin = TRUE, !.min = 1, !.hasMax = TRUE, !.max = MAX_AUFLAGE],
     maschine |->
        Rule(Pattern(<<>>, CodeClass), 1, 20, "Maschine muss ausgew<U+00E4>hlt werden"),
     produkt |->
        Rule(Pattern(<<>>, CodeClass), 1, 20, "Produkt muss ausgew<U+00E4>hlt werden"),
     papierart |->
        [Rule(NoPattern, 0, 0, "Papierart muss ausgew<U+00E4>hlt werden")
            EXCEPT !.hasPattern = FALSE, !.hasEnum = TRUE,
                   !.enum = <<Gestrichen, Ungestrichen>>],
     papiername |->
        Rule(Pattern(<<>>, PaperClass), 1, 30, "Papiername muss ausgew<U+00E4>hlt werden"),
     machineName |->
        Rule(Pattern(<<>>, NameClass), 1, 30,
             "Maschinenname darf nur Buchstaben, Zahlen und - _ . enthalten"),
     machineCode |->
        Rule(Pattern(<<>>, CodeClass), 1, 10,
             "Maschinencode darf nur Grossbuchstaben, Zahlen, _ und - enthalten"),
     productName |->
        Rule(Pattern(<<>>, NameClass), 1, 30,
             "Produktname darf nur Buchstaben, Zahlen und - _ . enthalten"),
     productCode |->
        Rule(Pattern(<<>>, CodeClass), 1, 10,
             "Produktcode darf nur Grossbuchstaben, Zahlen, _ und - enthalten"),
     paperName |->
        Rule(Pattern(<<>>, NameClass), 1, 30,
             "Papiername darf nur Buchstaben, Zahlen und - _ . enthalten"),
     paperCode |->
        Rule(Pattern(<<>>, PaperClass), 1, 15,
             "Papiercode darf nur Buchstaben, Zahlen, _ und - enthalten")]

RuleFields == DOMAIN getValidationRules

getFieldDisplayName(f) ==
    CASE f = "auftragsnummer" -> "Auftragsnummer"
      [] f = "kunde" -> "Kunde"
      [] f = "auftragsposition" -> "Auftragsposition"
      [] f = "maschine" -> "Maschine"
      [] f = "auflage" -> "Auflage"
      [] f = "produkt" -> "Produkt"
      [] f = "papierart" -> "Papierart"
      [] f = "papiername" -> "Papiername"
      [] f = "machineName" -> "Maschinenname"
      [] f = "machineCode" -> "Maschinencode"
      [] f = "productName" -> "Produktname"
      [] f = "productCode" -> "Produktcode"
      [] f = "paperName" -> "Papiername"
      [] f = "paperCode" -> "Papiercode"
      [] OTHER -> f


-----------------------------------------------------------------------------
(* Validator: validateField *)

\* A result of the Validator: what validateField, validateAuflage and
\* validateAuftragsnummer return on failure, and validateField on success.
Failure(error, code) == [valid |-> FALSE, error |-> error, code |-> code]

Success(stringValue, normalized) ==
    [valid |-> TRUE, value |-> stringValue, normalizedValue |-> normalized]

\* isEmpty without its tests for null and undefined.
isEmptyStringOnly(v) == v.type = "string" /\ Trim(v.str) = <<>>

\* value === null || value === undefined ||
\* (typeof value === 'string' && value.trim() === '')
isEmpty(v) == v.type = "undefined" \/ (v.type = "string" /\ Trim(v.str) = <<>>)

\* value.toString(): a TypeError on null and undefined
valueToString(v) == IF v.type = "undefined" THEN Throw ELSE Return(v.str)

\* String.prototype.toUpperCase, one code unit at a time; the sharp s becomes SS
ToUpperCase(c) ==
    IF c \in Lower THEN <<UpperSeq[CHOOSE i \in 1..26 : LowerSeq[i] = c]>>
    ELSE CASE c = "U+00E4" -> <<"U+00C4">>
           [] c = "U+00F6" -> <<"U+00D6">>
           [] c = "U+00FC" -> <<"U+00DC">>
           [] c = "U+00DF" -> <<"S", "S">>
           [] OTHER -> <<c>>

RECURSIVE toUpperCase(_)
toUpperCase(s) ==
    IF s = <<>> THEN <<>> ELSE ToUpperCase(Head(s)) \o toUpperCase(Tail(s))

\* x >= n in place of x > n
AtLeast(x, n) ==
    LET d == IntToDigits(n)
    IN  Len(x.digits) > Len(d) \/ (Len(x.digits) = Len(d) /\ DigitsToInt(x.digits) >= n)

\* The number x, a natural number given by its digits without leading zero,
\* is greater than n.
Greater(x, n) ==
    LET d == IntToDigits(n)
    IN  Len(x.digits) > Len(d) \/ (Len(x.digits) = Len(d) /\ DigitsToInt(x.digits) > n)

\* x < n, likewise
Less(x, n) == x.neg \/ (~Greater(x, n) /\ DigitsToInt(x.digits) /= n)

\* parseFloat(s) of a string of digits, the only strings that pass the
\* pattern of the one rule set whose range validateField tests here
\* (auftragsposition); NaN without a leading digit.
parseFloat(s) == ParseInt(s)

validateAuftragsnummer(v) ==
    IF ~IsPrefix(<<"A">>, v)
        THEN Failure("Auftragsnummer muss mit \"A\" beginnen", "INVALID_PREFIX")
    ELSE IF ~Test(Pattern(<<"A">>, Digit), v)
        THEN Failure("Auftragsnummer darf nur \"A\" gefolgt von Zahlen enthalten",
                     "INVALID_FORMAT")
    ELSE IF Len(v) < 2
        THEN Failure("Auftragsnummer muss mindestens eine Zahl nach \"A\" enthalten",
                     "TOO_SHORT")
    ELSE [valid |-> TRUE, value |-> v]

validateAuflage(v) ==
    LET cleanValue == RemoveAll(v, {"'"} \cup WhiteSpace)
        numValue == ParseInt(cleanValue)
    IN  IF ~Test(Pattern(<<>>, Digit), cleanValue)
            THEN Failure("Auflage muss eine Zahl sein (z.B. 1'200 oder 1200)",
                         "NOT_NUMERIC")
        ELSE IF Less(numValue, 1)
            THEN Failure("Auflage muss mindestens 1 sein", "TOO_SMALL")
        ELSE IF Greater(numValue, MAX_AUFLAGE)
            THEN Failure("Auflage darf maximal 1'000'000 sein", "TOO_LARGE")
        ELSE [valid |-> TRUE, value |-> v, numericValue |-> numValue,
              formattedValue |-> Grouped(numValue.digits, groupSep)]

\* enum.join(', ')
RECURSIVE join(_)
join(enum) ==
    IF enum = <<>> THEN ""
    ELSE IF Len(enum) = 1 THEN Cat(Head(enum))
    ELSE Cat(Head(enum)) \o ", " \o join(Tail(enum))

normalizeValue(f, v) ==
    CASE f = "kunde" -> Trim(v)
      [] f \in {"auftragsnummer", "machineCode", "productCode"} -> toUpperCase(v)
      [] f = "auflage" -> v
      [] OTHER -> Trim(v)

\* validateField(fieldName, value) for a field name of the rule table and no
\* custom rules
validateField(f, v) ==
    LET rules == getValidationRules[f]
        name == getFieldDisplayName(f)
    IN  IF rules.required /\ isEmpty(v)
            THEN Return(Failure(name \o " ist erforderlich", "REQUIRED"))
        ELSE IF isEmpty(v) /\ ~rules.required
            THEN Return([valid |-> TRUE, value |-> v])
        ELSE IF valueToString(v).threw THEN Throw
        ELSE
        LET stringValue == Trim(valueToString(v).val)
            numValue == parseFloat(stringValue)
            ranged == (rules.hasMin \/ rules.hasMax) /\ f /= "auflage"
        IN  IF rules.hasPattern /\ ~Test(rules.pattern, stringValue)
                THEN Return(Failure(rules.message, "PATTERN"))
            ELSE IF rules.minLength /= 0 /\ Len(stringValue) < rules.minLength
                THEN Return(Failure(name \o " muss mindestens "
                                         \o Cat(IntToDigits(rules.minLength))
                                         \o " Zeichen haben", "MIN_LENGTH"))
            ELSE IF rules.maxLength /= 0 /\ Len(stringValue) > rules.maxLength
                THEN Return(Failure(name \o " darf maximal "
                                         \o Cat(IntToDigits(rules.maxLength))
                                         \o " Zeichen haben", "MAX_LENGTH"))
            ELSE IF ranged /\ numValue.nan
                THEN Return(Failure(name \o " muss eine Zahl sein", "NOT_NUMERIC"))
            ELSE IF ranged /\ rules.hasMin /\ Less(numValue, rules.min)
                THEN Return(Failure(name \o " muss mindestens "
                                         \o Cat(IntToDigits(rules.min)) \o " sein",
                                    "MIN_VALUE"))
            ELSE IF ranged /\ rules.hasMax /\ Greater(numValue, rules.max)
                THEN Return(Failure(name \o " darf maximal "
                                         \o Cat(IntToDigits(rules.max)) \o " sein",
                                    "MAX_VALUE"))
            ELSE IF f = "auflage" /\ ~validateAuflage(stringValue).valid
                THEN Return(validateAuflage(stringValue))
            ELSE IF rules.hasEnum /\ stringValue \notin Range(rules.enum)
                THEN Return(Failure(name \o " muss einer der folgenden Werte sein: "
                                         \o join(rules.enum),
                                    "INVALID_ENUM"))
            ELSE IF f = "auftragsnummer" /\ ~validateAuftragsnummer(stringValue).valid
                THEN Return(validateAuftragsnummer(stringValue))
            ELSE Return(Success(stringValue, normalizeValue(f, stringValue)))


-----------------------------------------------------------------------------
(* Validator.validateField on one field name and one value *)

\* Strings a caller hands to validateField: empty and padded ones, order
\* numbers, positions, quantities, names and codes around each rule's limits.
FieldStrings ==
    {<<>>, <<" ">>, <<"\t", " ">>,
     A12345, <<" ", "A", "7", " ">>, <<"a", "7">>, <<"7">>, <<"A">>,
     <<"A", "1", "x">>, <<"A", "A", "1">>, <<"A", " ", "1">>, <<"B", "1", "2">>,
     <<"A">> \o Repeat("1", getValidationRules.auftragsnummer.maxLength - 1),
     <<"A">> \o Repeat("1", getValidationRules.auftragsnummer.maxLength),
     <<"0">>, <<"1">>, <<"9", "9", "9">>, <<"1", "0", "0", "0">>,
     <<" ", "1", "2", " ">>, <<"0", "0", "0", "7">>, <<"0", "1", "0", "0", "0">>,
     <<"-", "1">>, <<"1", ".", "5">>, <<"1", "2", "a">>, <<"1", "e", "3">>,
     <<"1">> \o Repeat("0", 15),
     <<"1", "'", "2", "0", "0">>, <<"1", " ", "2", "0", "0">>,
     <<"1", "U+2019", "2", "0", "0">>, <<"'">>, <<"0", "0">>,
     <<"1", "'", "0", "0", "0", "'", "0", "0", "0">>,
     <<"1", "0", "0", "0", "0", "0", "1">>,
     TestKunde, <<"M", " ", "&", " ", "M">>, <<"M", "U+00FC", "l", "l", "e", "r">>,
     <<"a", "/", "b">>, <<"s", "t", "r", "a", "U+00DF", "e">>,
     Repeat("a", getValidationRules.kunde.maxLength),
     Repeat("a", getValidationRules.kunde.maxLength + 1),
     CX75, <<"c", "x", "7", "5">>, <<"C", "X", " ", "7", "5">>, NoSat170, BRFPP,
     Repeat("Z", getValidationRules.machineCode.maxLength + 1),
     Repeat("Z", getValidationRules.paperCode.maxLength + 1),
     Repeat("Z", getValidationRules.maschine.maxLength + 1),
     Repeat("Z", getValidationRules.papiername.maxLength + 1),
     Gestrichen, Ungestrichen, Custom, <<" ">> \o Gestrichen,
     <<"G">> \o Tail(Gestrichen)}

\* Numbers a caller hands to validateField, as toString() prints them
FieldNumbers == {<<"0">>, <<"5">>, <<"1", "0", "0", "0">>, <<"1", "2", "0", "0">>}

ValidatorValues ==
    {Undefined} \cup {Str(v) : v \in FieldStrings} \cup {Num(d) : d \in FieldNumbers}

ValidateField ==
    /\ ~validation.called
    /\ fieldName \in RuleFields
    /\ LET r == validateField(fieldName, fieldValue)
       IN  validation' = [called |-> TRUE, threw |-> r.threw, val |-> r.val]
    /\ UNCHANGED <<formData, config, result, calls, first, agree, groupSep, number,
                   swiss, fieldName, fieldValue, file,
                   hotfolderVars, appVars>>

InitField ==
    /\ formData = ExampleForm
    /\ config = ExampleConfig
    /\ NoGenerator
    /\ NoHotfolder
    /\ NoApp
    /\ NoSwissNumber
    /\ fieldName \in RuleFields
    /\ fieldValue \in ValidatorValues
    /\ file = NoFile
    /\ validation = NotValidated

NextField == ValidateField

SpecField == InitField /\ [][NextField]_vars

\* The result codes of validateField
FieldCodes ==
    {"REQUIRED", "PATTERN", "MIN_LENGTH", "MAX_LENGTH", "NOT_NUMERIC", "MIN_VALUE",
     "MAX_VALUE", "TOO_SMALL", "TOO_LARGE", "INVALID_ENUM", "INVALID_PREFIX",
     "INVALID_FORMAT", "TOO_SHORT"}

\* C11: for every field name of the rule table and every value, validateField
\* does not throw, and what it returns is either a success result {valid: true,
\* value, normalizedValue} or a failure result {valid: false, error, code} with
\* one of the Validator's codes and a message that is not empty.
C11_ResultShape ==
    validation.called =>
        /\ ~validation.threw
        /\ LET r == validation.val
           IN  IF r.valid
                   THEN DOMAIN r = {"valid", "value", "normalizedValue"}
                   ELSE /\ DOMAIN r = {"valid", "error", "code"}
                        /\ r.code \in FieldCodes
                        /\ Len(r.error) > 0

\* C11: a quantity above one million, where the failure result is the one
\* validateAuflage made and validateField handed on.
C11_Witness ==
    /\ validation.called
    /\ fieldName = "auflage"
    /\ ~validation.threw
    /\ ~validation.val.valid
    /\ validation.val.code = "TOO_LARGE"


-----------------------------------------------------------------------------
(* Validator.validateForm *)

\* the local requiredFields of validateForm
formFields == <<"auftragsnummer", "kunde", "auftragsposition", "maschine",
                "auflage", "produkt", "papierart", "papiername">>

\* formData[field]: undefined for a missing field
FormValue(fd, field) == IF fd[field] = Null THEN Undefined ELSE Str(fd[field])

\* What validateForm has collected before any field: results = {},
\* errors = [], allValid = true
NothingCollected == [threw |-> FALSE, results |-> <<>>, errors |-> <<>>, allValid |-> TRUE]

\* The body of the forEach giving up after the first error it has recorded.
collectUntilFirstError(acc, field, res) ==
    IF res.threw \/ acc.threw THEN [acc EXCEPT !.threw = TRUE]
    ELSE IF acc.errors /= <<>> THEN acc
    ELSE [acc EXCEPT
            !.results = (field :> res.val) @@ acc.results,
            !.allValid = acc.allValid /\ res.val.valid,
            !.errors = IF res.val.valid THEN acc.errors
                       ELSE Append(acc.errors, [field |-> field,
                                                error |-> res.val.error,
                                                code |-> res.val.code])]

\* The body of the forEach: results[field] = result, and for an invalid
\* result allValid = false and one more entry of errors.  An exception of
\* validateField leaves the loop.
collect(acc, field, res) ==
    IF res.threw \/ acc.threw THEN [acc EXCEPT !.threw = TRUE]
    ELSE [acc EXCEPT
            !.results = (field :> res.val) @@ acc.results,
            !.allValid = acc.allValid /\ res.val.valid,
            !.errors = IF res.val.valid THEN acc.errors
                       ELSE Append(acc.errors, [field |-> field,
                                                error |-> res.val.error,
                                                code |-> res.val.code])]

\* requiredFields.forEach(field => ...)
RECURSIVE forEachField(_, _, _)
forEachField(fd, fields, acc) ==
    IF fields = <<>> THEN acc
    ELSE forEachField(fd, Tail(fields),
                      collect(acc, Head(fields),
                              validateField(Head(fields), FormValue(fd, Head(fields)))))

\* validateCrossFields has no check yet: its errors stay empty.
validateCrossFields(fd) == [valid |-> TRUE, errors |-> <<>>]

generateValidationSummary(results, errors) ==
    LET totalFields == Cardinality(DOMAIN results)
        validFields == Cardinality({f \in DOMAIN results : results[f].valid})
    IN  [totalFields |-> totalFields,
         validFields |-> validFields,
         invalidFields |-> totalFields - validFields,
         errorCount |-> Len(errors),
         isComplete |-> validFields = totalFields /\ Len(errors) = 0]

validateForm(fd) ==
    LET acc == forEachField(fd, formFields, NothingCollected)
        crossValidation == validateCrossFields(fd)
        allValid == acc.allValid /\ crossValidation.valid
        errors == acc.errors \o crossValidation.errors
    IN  IF acc.threw THEN Throw
        ELSE Return([valid |-> allValid,
                     errors |-> errors,
                     results |-> acc.results,
                     summary |-> generateValidationSummary(acc.results, errors)])

\* The form with no field filled in
EmptyForm == [f \in Fields |-> Null]

ValidateForm ==
    /\ ~validation.called
    /\ fieldName = ""
    /\ LET r == validateForm(formData)
       IN  validation' = [called |-> TRUE, threw |-> r.threw, val |-> r.val]
    /\ UNCHANGED <<formData, config, result, calls, first, agree, groupSep, number,
                   swiss, fieldName, fieldValue, file,
                   hotfolderVars, appVars>>

InitForm ==
    /\ formData \in FormInputs \cup {EmptyForm}
    /\ config = ExampleConfig
    /\ NoGenerator
    /\ NoHotfolder
    /\ NoApp
    /\ NoSwissNumber
    /\ NoValidator

NextForm == ValidateForm

SpecForm == InitForm /\ [][NextForm]_vars

\* The entries of errors that name the field f
ErrorsOf(f) ==
    {i \in 1..Len(validation.val.errors) : validation.val.errors[i].field = f}

\* C12: validateForm does not throw; results has an entry for each of the
\* eight fields, the one validateField returns for it; errors has one entry
\* (field, error, code) for each field whose result is invalid and none for
\* the others; and valid is true exactly when errors is empty.
C12_AllFields ==
    validation.called =>
        /\ ~validation.threw
        /\ DOMAIN validation.val.results = Fields
        /\ \A f \in Fields :
            LET r == validateField(f, FormValue(formData, f)).val
            IN  /\ validation.val.results[f] = r
                /\ IF r.valid THEN ErrorsOf(f) = {}
                   ELSE /\ Cardinality(ErrorsOf(f)) = 1
                        /\ \A i \in ErrorsOf(f) :
                            validation.val.errors[i] =
                                [field |-> f, error |-> r.error, code |-> r.code]
        /\ validation.val.valid <=> validation.val.errors = <<>>

\* C12: the empty form, where each of the eight fields has its own error
C12_Witness ==
    /\ validation.called
    /\ formData = EmptyForm
    /\ Len(validation.val.errors) = Len(formFields)
    /\ ~validation.val.valid


-----------------------------------------------------------------------------
(* The order number *)

\* s is 'A' followed by one or more digits
IsOrderNumber(s) ==
    Len(s) >= 2 /\ Head(s) = "A" /\ \A i \in 2..Len(s) : s[i] \in Digit

\* C13, as claimed: every value of auftragsnummer that is not 'A' followed by
\* one or more digits is rejected with code PATTERN.
C13_PatternCode ==
    (/\ validation.called
     /\ fieldName = "auftragsnummer"
     /\ ~(fieldValue.type = "string" /\ IsOrderNumber(fieldValue.str)))
        => (~validation.val.valid /\ validation.val.code = "PATTERN")

\* C13, amended: a missing, empty or blank value is rejected with code
\* REQUIRED; any other value is trimmed first, and is rejected with code
\* PATTERN exactly when what is left is not 'A' followed by one or more
\* digits.
C13_PatternAfterTrim ==
    (validation.called /\ fieldName = "auftragsnummer") =>
        LET r == validation.val
        IN  IF isEmpty(fieldValue)
                THEN ~r.valid /\ r.code = "REQUIRED"
                ELSE (~r.valid /\ r.code = "PATTERN")
                        <=> ~IsOrderNumber(Trim(fieldValue.str))

\* C13: an order number with a letter after its digits is rejected with PATTERN
C13_Witness ==
    /\ validation.called
    /\ fieldName = "auftragsnummer"
    /\ fieldValue = Str(<<"A", "1", "x">>)
    /\ ~validation.val.valid
    /\ validation.val.code = "PATTERN"


-----------------------------------------------------------------------------
(* Validator.validateFile *)

\* const maxSize = 100 * 1024 * 1024
maxSize == 100 * 1024 * 1024

allowedTypes == {"application/pdf"}

\* A File object: its size in bytes, its MIME type and its name
File(size, type, name) == [present |-> TRUE, size |-> size, type |-> type, name |-> name]

\* The control characters \x00-\x1f that the model's file names draw on
ControlChars == {"U+0000", "\t", "\n", "\r", "U+001F"}

\* [<>:"/\\|?*\x00-\x1f]
invalidChars == {"<", ">", ":", "\"", "/", "\\", "|", "?", "*"} \cup ControlChars

toLowerCase(s) == [i \in 1..Len(s) |-> ToLowerCase(s[i])]

\* The alternatives of reservedNames, in lower case
ReservedWords ==
    {<<"c", "o", "n">>, <<"p", "r", "n">>, <<"a", "u", "x">>, <<"n", "u", "l">>}
    \cup {<<"c", "o", "m", d>> : d \in Digit \ {"0"}}
    \cup {<<"l", "p", "t", d>> : d \in Digit \ {"0"}}

\* /^(CON|PRN|AUX|NUL|COM[1-9]|LPT[1-9])(\.|$)/i .test(fileName)
reservedNames(fileName) ==
    \E w \in ReservedWords :
        /\ IsPrefix(w, toLowerCase(fileName))
        /\ (Len(fileName) = Len(w) \/ fileName[Len(w) + 1] = ".")

\* Length of the longest file name validateFileName accepts
MaxNameLength == 255

\* validateFileName without its test for reserved names.
validateFileNameCharsOnly(fileName) ==
    IF \E i \in 1..Len(fileName) : fileName[i] \in invalidChars
        THEN Failure("Dateiname enth<U+00E4>lt ung<U+00FC>ltige Zeichen", "INVALID_CHARACTERS")
    ELSE IF Len(fileName) > MaxNameLength
        THEN Failure("Dateiname ist zu lang (max. 255 Zeichen)", "TOO_LONG")
    ELSE [valid |-> TRUE, value |-> fileName]

validateFileName(fileName) ==
    IF \E i \in 1..Len(fileName) : fileName[i] \in invalidChars
        THEN Failure("Dateiname enth<U+00E4>lt ung<U+00FC>ltige Zeichen", "INVALID_CHARACTERS")
    ELSE IF reservedNames(fileName)
        THEN Failure("Dateiname ist ein reservierter Name", "RESERVED_NAME")
    ELSE IF Len(fileName) > MaxNameLength
        THEN Failure("Dateiname ist zu lang (max. 255 Zeichen)", "TOO_LONG")
    ELSE [valid |-> TRUE, value |-> fileName]

\* formatFileSize(bytes) for a whole number of bytes, KB, MB or GB, as
\* maxSize is: the number, a space and the unit
formatFileSize(bytes) ==
    LET k == 1024
    IN  IF bytes = 0 THEN "0 Bytes"
        ELSE IF bytes < k THEN Cat(IntToDigits(bytes)) \o " Bytes"
        ELSE IF bytes < k * k THEN Cat(IntToDigits(bytes \div k)) \o " KB"
        ELSE IF bytes < k * k * k THEN Cat(IntToDigits(bytes \div (k * k))) \o " MB"
        ELSE Cat(IntToDigits(bytes \div (k * k * k))) \o " GB"

validateFile(f) ==
    IF ~f.present
        THEN Failure("Keine Datei ausgew<U+00E4>hlt", "NO_FILE")
    ELSE IF f.size > maxSize
        THEN Failure("Datei zu gross. Maximum: " \o formatFileSize(maxSize), "FILE_TOO_LARGE")
    ELSE IF f.size = 0
        THEN Failure("Datei ist leer", "EMPTY_FILE")
    ELSE IF f.type \notin allowedTypes
        THEN Failure("Nur PDF-Dateien sind erlaubt", "INVALID_FILE_TYPE")
    ELSE IF ~IsSuffix(<<".", "p", "d", "f">>, toLowerCase(f.name))
        THEN Failure("Datei muss die Endung .pdf haben", "INVALID_FILE_EXTENSION")
    ELSE IF ~validateFileName(f.name).valid
        THEN validateFileName(f.name)
    ELSE [valid |-> TRUE,
          fileInfo |-> [name |-> f.name, size |-> f.size, type |-> f.type]]


Pdf(stem) == stem \o <<".", "p", "d", "f">>

\* File names: the extension in several spellings and missing, each illegal
\* character, reserved device names and their near misses, and names at and
\* above the length limit.
FileNames ==
    {Pdf(<<"a">>), <<"A", ".", "P", "D", "F">>, <<"a", ".", "P", "d", "f">>,
     <<"a", ".", "t", "x", "t">>, <<"a", "p", "d", "f">>, Pdf(<<>>),
     Pdf(<<"a">>) \o <<" ">>, Pdf(<<"a">>) \o <<".", "e", "x", "e">>,
     Pdf(<<"a", " ", "b">>), Pdf(<<"U+00E4">>),
     Pdf(<<"C", "O", "N">>), Pdf(<<"c", "o", "n">>), <<"n", "u", "l", ".", "P", "D", "F">>,
     Pdf(<<"C", "O", "M", "1">>), Pdf(<<"C", "O", "M", "0">>),
     Pdf(<<"L", "P", "T", "9", ".", "x">>), Pdf(<<"C", "O", "N", "S", "O", "L", "E">>),
     Pdf(<<"a", "C", "O", "N">>), Pdf(<<"A", "u", "X">>), Pdf(<<"P", "R", "N", "-", "1">>),
     Pdf([i \in 1..(MaxNameLength - 4) |-> "a"]),
     Pdf([i \in 1..(MaxNameLength - 3) |-> "a"])}
    \cup {Pdf(<<"a", c, "b">>) : c \in invalidChars}

FileTypes == {"application/pdf", "application/PDF", "application/x-pdf", "text/plain", ""}

FileSizes == {0, 1, maxSize - 1, maxSize, maxSize + 1}

Files ==
    {NoFile} \cup {File(size, type, name) :
                      size \in FileSizes, type \in FileTypes, name \in FileNames}

ValidateFile ==
    /\ ~validation.called
    /\ fieldName = ""
    /\ validation' = [called |-> TRUE, threw |-> FALSE, val |-> validateFile(file)]
    /\ UNCHANGED <<formData, config, result, calls, first, agree, groupSep, number,
                   swiss, fieldName, fieldValue, file,
                   hotfolderVars, appVars>>

InitFile ==
    /\ formData = ExampleForm
    /\ config = ExampleConfig
    /\ NoGenerator
    /\ NoHotfolder
    /\ NoApp
    /\ NoSwissNumber
    /\ fieldName = ""
    /\ fieldValue = Undefined
    /\ file \in Files
    /\ validation = NotValidated

NextFile == ValidateFile

SpecFile == InitFile /\ [][NextFile]_vars

\* The name ends in ".pdf", in whatever case
EndsInPdf(name) ==
    /\ Len(name) >= 4
    /\ name[Len(name) - 3] = "."
    /\ name[Len(name) - 2] \in {"p", "P"}
    /\ name[Len(name) - 1] \in {"d", "D"}
    /\ name[Len(name)] \in {"f", "F"}

\* The name up to its first dot is the name of a device, in whatever case
IsDeviceName(name) ==
    LET stem == IF \E i \in 1..Len(name) : name[i] = "."
                    THEN SubSeq(name, 1, (CHOOSE i \in 1..Len(name) :
                            name[i] = "." /\ \A j \in 1..(i - 1) : name[j] /= ".") - 1)
                    ELSE name
    IN  toLowerCase(stem) \in ReservedWords

-----------------------------------------------------------------------------
(* The order position before the Validator and before the generator *)

\* Positions within, at the ends of and outside 0..999, padded, with leading
\* zeros, and not numbers at all
PositionInputs ==
    {Null, <<>>, <<" ">>, <<"0">>, <<"1">>, <<"9", "9", "9">>, <<"1", "0", "0", "0">>,
     <<"0", "9", "9", "9">>, <<"0", "1", "0", "0", "0">>, <<" ", "1", "2", " ">>,
     <<" ", "1", "0", "0", "0", " ">>, <<"-", "1">>, <<"1", ".", "5">>,
     <<"1", "2", "a">>, <<"1", "e", "3">>, <<"9", "9", "9", "9", "9">>,
     <<"1">> \o Repeat("0", 15), <<"1", "2", " ", "3">>}

InitPosition ==
    /\ \E p \in PositionInputs :
        /\ formData = [ExampleForm EXCEPT !.auftragsposition = p]
        /\ fieldValue = FormValue(formData, "auftragsposition")
    /\ config \in Configs
    /\ NoGenerator
    /\ NoHotfolder
    /\ NoApp
    /\ NoSwissNumber
    /\ fieldName = "auftragsposition"
    /\ file = NoFile
    /\ validation = NotValidated

NextPosition == ValidateField \/ Generate

SpecPosition == InitPosition /\ [][NextPosition]_vars

\* s is a string of digits whose value is within 0..999
InRange(s) ==
    /\ s /= <<>>
    /\ \A i \in 1..Len(s) : s[i] \in Digit
    /\ Len(StripLeadingZeros(s)) <= 3

\* The order part of the generated code with the position p
CarriesPosition(p) ==
    IsPrefix(A12345 \o <<"-">> \o p \o <<"#">>, result.val)

\* C16, as claimed: validateField accepts a position exactly when the value
\* is a string of digits with a value within 0..999; generate returns for
\* any other position that is filled in a code with that position in it as
\* it was given.
C16_RangeAsGiven ==
    /\ validation.called =>
        /\ validation.val.valid <=>
              (fieldValue.type = "string" /\ InRange(fieldValue.str))
    /\ (result.called /\ formData.auftragsposition /= Null
            /\ Trim(formData.auftragsposition) /= <<>>
            /\ ~InRange(formData.auftragsposition))
        => (result.val /= <<>> /\ CarriesPosition(formData.auftragsposition))

\* C16, amended: validateField trims the value and accepts it exactly when
\* what is left is a string of digits with a value within 0..999; digits
\* with a greater value are rejected with MAX_VALUE.  generate enforces no
\* range: for a position that is not blank and, once trimmed, not within
\* 0..999 it returns a code that is not empty and carries the trimmed
\* position.
C16_RangeValidatorOnly ==
    /\ (validation.called /\ ~isEmpty(fieldValue)) =>
        LET s == Trim(fieldValue.str)
        IN  /\ validation.val.valid <=> InRange(s)
            /\ (Test(Pattern(<<>>, Digit), s) /\ ~InRange(s))
                  => (~validation.val.valid /\ validation.val.code = "MAX_VALUE")
    /\ (result.called /\ formData.auftragsposition /= Null
            /\ Trim(formData.auftragsposition) /= <<>>
            /\ ~InRange(Trim(formData.auftragsposition)))
        => (/\ ~result.threw
            /\ result.val /= <<>>
            /\ CarriesPosition(Trim(formData.auftragsposition)))

\* C16: the position 1000, which the Validator has rejected with MAX_VALUE
\* and generate has put into its code
C16_Witness ==
    /\ formData.auftragsposition = <<"1", "0", "0", "0">>
    /\ validation.called
    /\ ~validation.val.valid
    /\ validation.val.code = "MAX_VALUE"
    /\ result.called
    /\ IsPrefix(<<"A", "1", "2", "3", "4", "5", "-", "1", "0", "0", "0", "#">>, result.val)


-----------------------------------------------------------------------------
(* HeidelbergPDFRenamer (src/WebApp/assets/js/utils/helpers.js): the preview *)

generatorVars == <<result, calls, first, agree, groupSep, number, swiss>>

\* isFormValid: each of the eight values is truthy, that is neither null nor
\* the empty string
isFormValid(fd) ==
    \A f \in Fields : fd[f] /= Null /\ fd[f] /= <<>>

\* updateProductCode: the text it puts into the generatedCode element for
\* the record getFormData returns.  No Validator is called on the way.
updateProductCode(fd, cfg) ==
    LET productCode == generate(fd, cfg).val
    IN  IF productCode /= <<>> /\ isFormValid(fd)
            THEN Cat(productCode)
            ELSE Placeholder

\* The form with its text fields and selects empty and no radio button checked
BlankForm == [f \in Fields |-> IF f = "papierart" THEN Null ELSE <<>>]

\* What an input or change event leaves in a field of the record that
\* getFormData returns: a string, or null for papierart without a checked
\* radio button
EventValues(f) ==
    (FieldValues(f) \ {Null}) \cup {ExampleForm[f]}
        \cup (IF f = "papierart" THEN {Null} ELSE {})

\* Number of user events of a run
MaxEvents == 3

\* An input or change event of the form: the field has its new value, and
\* the listener updateProductCode runs.
FormEvent ==
    /\ events < MaxEvents
    /\ \E f \in Fields : \E v \in EventValues(f) :
        /\ formData[f] /= v
        /\ formData' = [formData EXCEPT ![f] = v]
    /\ preview' = updateProductCode(formData', config)
    /\ events' = events + 1
    /\ UNCHANGED <<config, generatorVars, validatorVars, hotfolderVars,
                   currentFile, notifications, operation, pending, stored, issued,
                   storeVars, uiVars, domVars>>

\* The form after initializeUI, empty or filled in as in the example
InitPreview ==
    /\ formData \in {BlankForm, ExampleForm}
    /\ config = ExampleConfig
    /\ NoGenerator
    /\ NoSwissNumber
    /\ NoValidator
    /\ NoHotfolder
    /\ currentFile = NoFile
    /\ preview = updateProductCode(formData, config)
    /\ notifications = <<>>
    /\ operation = NoOperation
    /\ pending = {}
    /\ stored = EmptyConfig
    /\ issued = <<>>
    /\ events = 0
    /\ NoStore
    /\ NoUi
    /\ NoDom

NextPreview == FormEvent

SpecPreview == InitPreview /\ [][NextPreview]_vars

\* C15: the preview shows a generated code only for form data that the
\* Validator accepts, each field having been checked before the generator
\* ran.
C15_PreviewValidated ==
    preview /= Placeholder => validateForm(formData).val.valid


-----------------------------------------------------------------------------
(* HotfolderAPI.saveToHotfolder (src/WebApp/assets/js/utils/helpers.js) *)

\* A directory handle: query is what its queryPermission answers and request
\* what its requestPermission answers, each 'granted', 'prompt' or 'denied'.
Handle(query, request) == [present |-> TRUE, query |-> query, request |-> request]

PermissionStates == {"granted", "prompt", "denied"}

\* An answer other than 'denied' taken for a grant.
notDenied(answer) == answer /= "denied"

\* await dirHandle.queryPermission(options) === 'granted'
granted(answer) == answer = "granted"

\* The errors a call of the File System Access API is rejected with
Errors ==
    {[name |-> "NotAllowedError", message |-> "The request is not allowed."],
     [name |-> "QuotaExceededError", message |-> "The quota has been exceeded."],
     [name |-> "InvalidModificationError", message |-> "The object can not be modified."],
     [name |-> "AbortError", message |-> "The user aborted a request."],
     [name |-> "TypeError", message |-> "Name is not allowed."]}

\* A message is the sequence of the parts a template literal joins.
\* The catch block of saveToHotfolder: the message of the Error it throws
saveFailure(error) ==
    CASE error.name = "NotAllowedError" ->
            <<"Zugriff auf Hotfolder verweigert. Bitte Berechtigungen pr<U+00FC>fen.">>
      [] error.name = "QuotaExceededError" ->
            <<"Nicht gen<U+00FC>gend Speicherplatz im Hotfolder.">>
      [] error.name = "InvalidModificationError" ->
            <<"Datei kann nicht <U+00FC>berschrieben werden. M<U+00F6>glicherweise ist sie in Verwendung.">>
      [] OTHER -> <<"Fehler beim Speichern: ", error.message>>

\* throw new Error('Keine Berechtigung ...') inside the try block
NoPermission ==
    [name |-> "Error", message |-> "Keine Berechtigung f<U+00FC>r Hotfolder-Zugriff"]

\* fileName.replace(/_+/g, '_')
RECURSIVE CollapseUnderscores(_)
CollapseUnderscores(s) ==
    IF Len(s) < 2 THEN s
    ELSE IF s[1] = "_" /\ s[2] = "_" THEN CollapseUnderscores(Tail(s))
    ELSE <<Head(s)>> \o CollapseUnderscores(Tail(s))

\* .replace(/^[\s.]+|[\s.]+$/g, '')
RECURSIVE StripDotsAndSpace(_)
StripDotsAndSpace(s) ==
    IF s /= <<>> /\ Head(s) \in WhiteSpace \cup {"."} THEN StripDotsAndSpace(Tail(s))
    ELSE IF s /= <<>> /\ s[Len(s)] \in WhiteSpace \cup {"."}
        THEN StripDotsAndSpace(SubSeq(s, 1, Len(s) - 1))
    ELSE s

\* HotfolderAPI.sanitizeFileName
sanitizeFileName(fileName) ==
    Substring0(
        StripDotsAndSpace(
            CollapseUnderscores(
                [i \in 1..Len(fileName) |->
                    IF fileName[i] \in invalidChars THEN "_" ELSE fileName[i]])),
        MaxNameLength)

\* saveToHotfolder has thrown an Error with this message
Thrown(message) ==
    [done |-> TRUE, threw |-> TRUE, returned |-> FALSE, message |-> message]

\* An entry of io: the call, the name it was made with, and whether it
\* completed or was rejected
Call(name, arg, ok) == [call |-> name, arg |-> arg, ok |-> ok]

\* The file name handed to saveToHotfolder: productCode followed by the
\* name of the current file
newFileName == generate(formData, config).val \o currentFile.name

\* saveToHotfolder is called: without a handle it throws at once.
SaveBegin ==
    /\ step = "idle"
    /\ IF ~dirHandle.present
           THEN /\ saved' = Thrown(<<"Kein Hotfolder ausgew<U+00E4>hlt">>)
                /\ step' = "done"
           ELSE /\ saved' = saved
                /\ step' = "queryPermission"
    /\ UNCHANGED <<formData, config, generatorVars, validatorVars, appVars,
                   dirHandle, permission, io>>

\* A call of the handle, of the file handle or of the writable stream is
\* rejected: the catch block throws what saveFailure makes of the error.
SaveRejected ==
    /\ step \in {"queryPermission", "requestPermission", "getFileHandle",
                 "createWritable", "write", "close"}
    /\ \E error \in Errors :
        /\ io' = Append(io, Call(step, <<>>, FALSE))
        /\ saved' = Thrown(saveFailure(error))
        /\ step' = "done"
    /\ UNCHANGED <<formData, config, generatorVars, validatorVars, appVars,
                   dirHandle, permission>>

\* verifyPermission: await dirHandle.queryPermission(options)
QueryPermission ==
    /\ step = "queryPermission"
    /\ io' = Append(io, Call(step, <<>>, TRUE))
    /\ IF granted(dirHandle.query)
           THEN permission' = "granted" /\ step' = "getFileHandle"
           ELSE permission' = permission /\ step' = "requestPermission"
    /\ UNCHANGED <<formData, config, generatorVars, validatorVars, appVars,
                   dirHandle, saved>>

\* verifyPermission: await dirHandle.requestPermission(options); without a
\* grant saveToHotfolder throws, and its catch block throws anew.
RequestPermission ==
    /\ step = "requestPermission"
    /\ io' = Append(io, Call(step, <<>>, TRUE))
    /\ IF granted(dirHandle.request)
           THEN permission' = "granted" /\ step' = "getFileHandle" /\ saved' = saved
           ELSE /\ permission' = "refused"
                /\ step' = "done"
                /\ saved' = Thrown(saveFailure(NoPermission))
    /\ UNCHANGED <<formData, config, generatorVars, validatorVars, appVars, dirHandle>>

\* await dirHandle.getFileHandle(cleanFileName, {create: true})
GetFileHandle ==
    /\ step = "getFileHandle"
    /\ io' = Append(io, Call(step, sanitizeFileName(newFileName), TRUE))
    /\ step' = "createWritable"
    /\ UNCHANGED <<formData, config, generatorVars, validatorVars, appVars,
                   dirHandle, permission, saved>>

\* await fileHandle.createWritable()
CreateWritable ==
    /\ step = "createWritable"
    /\ io' = Append(io, Call(step, <<>>, TRUE))
    /\ step' = "write"
    /\ UNCHANGED <<formData, config, generatorVars, validatorVars, appVars,
                   dirHandle, permission, saved>>

\* await writable.write(file)
Write ==
    /\ step = "write"
    /\ io' = Append(io, Call(step, currentFile.name, TRUE))
    /\ step' = "close"
    /\ UNCHANGED <<formData, config, generatorVars, validatorVars, appVars,
                   dirHandle, permission, saved>>

\* await writable.close(); return true
Close ==
    /\ step = "close"
    /\ io' = Append(io, Call(step, <<>>, TRUE))
    /\ step' = "done"
    /\ saved' = [done |-> TRUE, threw |-> FALSE, returned |-> TRUE, message |-> <<>>]
    /\ UNCHANGED <<formData, config, generatorVars, validatorVars, appVars,
                   dirHandle, permission>>

\* The files whose renamed copy is saved
SaveFiles ==
    {File(1, "application/pdf", Pdf(<<"a">>)),
     File(1, "application/pdf", Pdf(<<"a", ":", "b">>)),
     File(1, "application/pdf", Pdf(<<"U+00E4", " ", "_", "_", "x">>))}

InitSave ==
    /\ formData \in {ExampleForm, BlankForm}
    /\ config = ExampleConfig
    /\ NoGenerator
    /\ NoSwissNumber
    /\ NoValidator
    /\ dirHandle \in {NoHandle}
            \cup {Handle(q, r) : q \in PermissionStates, r \in PermissionStates}
    /\ step = "idle"
    /\ permission = "unknown"
    /\ io = <<>>
    /\ saved = NotSaved
    /\ currentFile \in SaveFiles
    /\ preview = updateProductCode(formData, config)
    /\ notifications = <<>>
    /\ operation = NoOperation
    /\ pending = {}
    /\ stored = EmptyConfig
    /\ issued = <<>>
    /\ events = 0
    /\ NoStore
    /\ NoUi
    /\ NoDom

NextSave ==
    \/ SaveBegin
    \/ SaveRejected
    \/ QueryPermission
    \/ RequestPermission
    \/ GetFileHandle
    \/ CreateWritable
    \/ Write
    \/ Close

SpecSave == InitSave /\ [][NextSave]_vars

\* The calls that create or write a file of the directory
FileCalls == {"getFileHandle", "createWritable", "write", "close"}

\* Entry i of io is a completed call of that name
Completed(i, name) == io[i].call = name /\ io[i].ok

\* C20: a call that creates or writes a file comes after a queryPermission
\* that answered 'granted' or, failing that, a requestPermission that did;
\* saveToHotfolder has returned true only with write and close completed as
\* the last two calls, and has thrown whenever it ended otherwise; without a
\* handle it has thrown 'Kein Hotfolder ausgewaehlt' and made no call.
C20_PermissionFirst ==
    /\ \A i \in 1..Len(io) :
        io[i].call \in FileCalls =>
            /\ permission = "granted"
            /\ \/ \E j \in 1..(i - 1) :
                    Completed(j, "queryPermission") /\ dirHandle.query = "granted"
               \/ \E j, k \in 1..(i - 1) :
                    /\ j < k
                    /\ Completed(j, "queryPermission")
                    /\ Completed(k, "requestPermission")
                    /\ dirHandle.request = "granted"
    /\ (saved.done /\ saved.returned) =>
            /\ ~saved.threw
            /\ Len(io) >= 2
            /\ Completed(Len(io) - 1, "write")
            /\ Completed(Len(io), "close")
    /\ step = "done" => (saved.done /\ (saved.returned \/ saved.threw))
    /\ (saved.done /\ ~saved.returned) => saved.threw
    /\ (step = "done" /\ ~dirHandle.present) =>
            /\ saved.threw
            /\ saved.message = <<"Kein Hotfolder ausgew<U+00E4>hlt">>
            /\ io = <<>>

\* C20: the permission was not granted on the query, was granted on the
\* request, and the file has been written and closed.
C20_Witness ==
    /\ dirHandle.present
    /\ dirHandle.query = "prompt"
    /\ saved.returned
    /\ Len(io) = 6
    /\ Completed(2, "requestPermission")
    /\ Completed(6, "close")


-----------------------------------------------------------------------------
(* White space in the customer name *)

\* The trimmed name with each run of white space made one hyphen, then the
\* characters outside the allow-list removed, cut to 20
Hyphenated(name) ==
    Substring0(KeepOnly(ReplaceSpaceRuns(Trim(name)), AllowedChar), 20)

\* C19: each run of white space inside the trimmed customer name is emitted
\* as one hyphen: two words separated by a space come out joined by '-'.
C19_SpacesToHyphens ==
    (result.called /\ result.val /= <<>>)
        => CustomerSegment = Hyphenated(formData.kunde)


-----------------------------------------------------------------------------
(* HotfolderAPI: the handle kept in IndexedDB                                *)
(* (src/WebApp/assets/js/utils/helpers.js)                                   *)

\* A request or transaction of IndexedDB has ended: with this value, with a
\* rejection, or never (settled is FALSE).
Settled(threw, val, database) ==
    [settled |-> TRUE, threw |-> threw, val |-> val, database |-> database]

Hangs(database) ==
    [settled |-> FALSE, threw |-> FALSE, val |-> NoHandle, database |-> database]

\* indexedDB.open('HeidelbergPDFRenamer', 1) without a listener for
\* upgradeneeded: a database that did not exist is created without a store.
Opened(database) ==
    IF database.db = "none" THEN Database("empty", NoHandle) ELSE database

\* storeHandleInIndexedDB: its upgradeneeded listener creates the store in a
\* database it creates; in a database that exists without the store,
\* db.transaction throws inside the success listener and the promise is never
\* settled.
storeHandleInIndexedDB(database, handle, openFails, txFails) ==
    IF openFails THEN Settled(TRUE, NoHandle, database)
    ELSE IF database.db = "empty" THEN Hangs(database)
    ELSE IF txFails THEN Settled(TRUE, NoHandle, Database("handles", database.handle))
    ELSE Settled(FALSE, NoHandle, Database("handles", handle))

\* saveHotfolderHandle: a rejection is only logged
saveHotfolderHandle(database, handle, openFails, txFails) ==
    LET put == storeHandleInIndexedDB(database, handle, openFails, txFails)
    IN  [put EXCEPT !.threw = FALSE]

\* loadHandleFromIndexedDB
loadHandleFromIndexedDB(database, openFails, getFails) ==
    IF openFails THEN Settled(TRUE, NoHandle, database)
    ELSE IF database.db /= "handles" THEN Settled(FALSE, NoHandle, Opened(database))
    ELSE IF getFails THEN Settled(TRUE, NoHandle, database)
    ELSE Settled(FALSE, database.handle, database)

\* A clearSavedHandle that resolves without deleting anything.
clearNothing(database, openFails, txFails) ==
    Settled(FALSE, NoHandle, database)

\* clearSavedHandle: resolves whatever happens; the entry is deleted when the
\* database opens and the transaction completes.
clearSavedHandle(database, openFails, txFails) ==
    IF openFails THEN Settled(FALSE, NoHandle, database)
    ELSE IF database.db /= "handles" THEN Settled(FALSE, NoHandle, Opened(database))
    ELSE IF txFails THEN Settled(FALSE, NoHandle, database)
    ELSE Settled(FALSE, NoHandle, Database("handles", NoHandle))

\* verifyPermission: queryPermission, then requestPermission
verifyPermission(handle) == granted(handle.query) \/ granted(handle.request)

\* What the browser does to the requests of one call: env.open and env.get
\* fail the load, env.verify makes queryPermission or requestPermission
\* reject, env.clearOpen and env.clearTx fail the deletion.
Environments ==
    [open : BOOLEAN, get : BOOLEAN, verify : BOOLEAN, clearOpen : BOOLEAN, clearTx : BOOLEAN]

\* loadSavedHotfolder: how it ends for this database in this environment.
\* cause says why null was returned, cleared whether the deletion went
\* through.
loadSavedHotfolder(database, env) ==
    LET got == loadHandleFromIndexedDB(database, env.open, env.get)
        failed == got.threw \/ (got.val.present /\ env.verify)
        denied == ~failed /\ got.val.present /\ ~verifyPermission(got.val)
        cleared == clearSavedHandle(got.database, env.clearOpen, env.clearTx)
    IN  [done |-> TRUE, threw |-> FALSE,
         val |-> IF failed \/ denied THEN NoHandle ELSE got.val,
         cause |-> IF failed THEN "failed" ELSE IF denied THEN "denied"
                   ELSE IF got.val.present THEN "" ELSE "nothing stored",
         cleared |-> (failed \/ denied) /\ ~env.clearOpen /\ ~env.clearTx,
         before |-> database,
         database |-> IF failed \/ denied THEN cleared.database ELSE got.database]

\* Number of calls on the stored handle in a run
MaxLoads == 2

\* A call of loadSavedHotfolder
LoadSavedHotfolder ==
    /\ events < MaxLoads
    /\ \E env \in Environments :
        /\ loaded' = loadSavedHotfolder(idb, env)
        /\ idb' = loaded'.database
    /\ events' = events + 1
    /\ UNCHANGED <<formData, config, generatorVars, validatorVars, hotfolderVars,
                   currentFile, preview, notifications, operation, pending, stored,
                   issued, uiVars, domVars>>


\* The handles a picker hands to saveHotfolderHandle
PickedHandles == {Handle(q, r) : q \in PermissionStates, r \in PermissionStates}

\* selectHotfolder has picked a handle and saves it; the call that never
\* settles leaves everything as it is.
SaveHotfolderHandle ==
    /\ events < MaxLoads
    /\ \E handle \in PickedHandles : \E openFails \in BOOLEAN : \E txFails \in BOOLEAN :
        idb' = saveHotfolderHandle(idb, handle, openFails, txFails).database
    /\ events' = events + 1
    /\ UNCHANGED <<formData, config, generatorVars, validatorVars, hotfolderVars,
                   currentFile, preview, notifications, operation, pending, stored,
                   issued, loaded, uiVars, domVars>>

\* A profile without the database, or with the database an earlier session
\* left
InitLoad ==
    /\ formData = ExampleForm
    /\ config = ExampleConfig
    /\ NoGenerator
    /\ NoSwissNumber
    /\ NoValidator
    /\ NoHotfolder
    /\ currentFile = NoFile
    /\ preview = Placeholder
    /\ notifications = <<>>
    /\ operation = NoOperation
    /\ pending = {}
    /\ stored = EmptyConfig
    /\ issued = <<>>
    /\ events = 0
    /\ idb \in {Database("none", NoHandle), Database("empty", NoHandle)}
            \cup {Database("handles", h) : h \in {NoHandle} \cup PickedHandles}
    /\ loaded = NotLoaded
    /\ NoUi
    /\ NoDom

NextLoad == LoadSavedHotfolder \/ SaveHotfolderHandle

SpecLoad == InitLoad /\ [][NextLoad]_vars

\* A later load of the database the call has left, with nothing failing
LaterLoad == loadHandleFromIndexedDB(loaded.database, FALSE, FALSE)

\* C21 as stated: a handle is returned only when one is stored and the
\* permission is granted; otherwise null is returned, nothing is thrown, and
\* after a denial or a failure the stored handle is gone.
C21_NullMeansDeleted ==
    loaded.done =>
        /\ ~loaded.threw
        /\ loaded.val.present =>
               loaded.val = loaded.before.handle /\ verifyPermission(loaded.val)
        /\ loaded.cause \in {"denied", "failed"} =>
               ~loaded.val.present /\ ~loaded.database.handle.present
               /\ ~LaterLoad.val.present

\* C21: a handle is returned only when one is stored and the permission is
\* granted; otherwise null is returned and nothing is thrown; after a denial
\* or a failure the stored handle is gone whenever the deletion went through.
C21_NullMeansDeletionTried ==
    loaded.done =>
        /\ ~loaded.threw
        /\ loaded.val.present =>
               loaded.val = loaded.before.handle /\ verifyPermission(loaded.val)
        /\ loaded.cause \in {"denied", "failed"} => ~loaded.val.present
        /\ (loaded.cause \in {"denied", "failed"} /\ loaded.cleared) =>
               ~loaded.database.handle.present /\ ~LaterLoad.val.present

\* A stored handle was denied, and the deletion went through.
C21_Witness ==
    /\ loaded.done
    /\ loaded.cause = "denied"
    /\ loaded.before.handle.present
    /\ loaded.cleared
    /\ ~loaded.database.handle.present
    /\ idb = loaded.database


-----------------------------------------------------------------------------
(* HeidelbergPDFRenamer: the user-triggered operations *)

\* { type, title, message }: a notification; its message is the sequence of
\* the parts a template literal joins.
Notification(type, title, message) == [type |-> type, title |-> title, message |-> message]

\* UIManager.showNotification keeps at most this many notifications
MaxNotifications == 5

\* UIManager.showNotification: the notification joins the list, and the
\* oldest one leaves a list of more than five.
showNotification(list, n) ==
    LET pushed == Append(list, n)
    IN  IF Len(pushed) > MaxNotifications THEN Tail(pushed) ELSE pushed

RECURSIVE showAll(_, _)
showAll(list, shown) ==
    IF shown = <<>> THEN list
    ELSE showAll(showNotification(list, Head(shown)), Tail(shown))

\* selectHotfolder without support for the File System Access API
Unsupported ==
    [name |-> "Error",
     message |-> "File System Access API wird von diesem Browser nicht unterst<U+00FC>tzt. Verwenden Sie Chrome oder Edge."]

\* What the operations of the application are rejected with
AppErrors == {e \in Errors : e.name \in {"NotAllowedError", "AbortError", "TypeError"}}

\* The operation op has run, has met the error (or none) and has shown these
\* notifications; what it awaits it has called once.
Ran(op, error, shown) ==
    [op |-> op, raised |-> error /= NoError, error |-> error, attempts |-> 1,
     shown |-> shown]

\* FileHandler.sanitizeFileName (src/assets/js/modules/ui.js): as the one of
\* HotfolderAPI, but with the class [<>:"/\\|?*], which has no control
\* characters
FileHandler_sanitizeFileName(fileName) ==
    Substring0(
        StripDotsAndSpace(
            CollapseUnderscores(
                [i \in 1..Len(fileName) |->
                    IF fileName[i] \in invalidChars \ ControlChars THEN "_"
                    ELSE fileName[i]])),
        MaxNameLength)

\* A file has left the application: by a download link or into the
\* hotfolder, under the name cleanFileName, made of this product code and
\* this file name
Output(via, cleanFileName, productCode, original) ==
    [via |-> via, name |-> cleanFileName, code |-> productCode, original |-> original]

\* updateUIState: what it assigns to the disabled property of the download
\* button and of the save-to-hotfolder button
updateUIState(file_, fd, handle) ==
    [download |-> [disabled |-> ~file_.present \/ ~isFormValid(fd)],
     save |-> [disabled |-> ~file_.present \/ ~isFormValid(fd) \/ ~handle.present]]

\* The files dropped on the application
DroppedFiles ==
    {File(1, "application/pdf", Pdf(<<"a">>)), File(0, "application/pdf", Pdf(<<"a">>))}

\* processFile: an invalid file is reported; a valid one becomes the current
\* file, and an exception of what follows (showFilePreview, updateUIState,
\* updateProductCode) is caught and reported with a text of its own.
ProcessFile ==
    /\ events < MaxEvents
    /\ \E f \in DroppedFiles : \E error \in {NoError} \cup AppErrors :
        LET isValid == validateFile(f)
            shown == IF ~isValid.valid
                         THEN <<Notification("error", "Ung<U+00FC>ltige Datei",
                                             <<isValid.error>>)>>
                     ELSE IF error /= NoError
                         THEN <<Notification("error", "Fehler",
                                    <<"Datei konnte nicht verarbeitet werden">>)>>
                     ELSE <<>>
        IN  /\ ~isValid.valid => error = NoError
            /\ currentFile' = IF isValid.valid THEN f ELSE currentFile
            /\ preview' = IF isValid.valid /\ error = NoError
                              THEN updateProductCode(formData, config)
                              ELSE preview
            /\ IF isValid.valid /\ error = NoError
                   THEN /\ downloadBtn' = updateUIState(f, formData, dirHandle).download
                        /\ saveToHotfolderBtn' = updateUIState(f, formData, dirHandle).save
                   ELSE UNCHANGED <<downloadBtn, saveToHotfolderBtn>>
            /\ operation' = Ran("processFile", error, shown)
            /\ notifications' = showAll(notifications, shown)
    /\ events' = events + 1
    /\ UNCHANGED <<formData, config, generatorVars, validatorVars, hotfolderVars,
                   pending, stored, issued, storeVars, uiVars, hotfolderPath, outputs>>

\* removeFile
RemoveFile ==
    /\ events < MaxEvents
    /\ currentFile' = NoFile
    /\ downloadBtn' = updateUIState(NoFile, formData, dirHandle).download
    /\ saveToHotfolderBtn' = updateUIState(NoFile, formData, dirHandle).save
    /\ preview' = updateProductCode(formData, config)
    /\ events' = events + 1
    /\ UNCHANGED <<formData, config, generatorVars, validatorVars, hotfolderVars,
                   notifications, operation, pending, stored, issued,
                   storeVars, uiVars, hotfolderPath, outputs>>

\* A click on the download button, which a disabled button does not take.
\* downloadRenamedFile: nothing without a current file; FileHandler.downloadFile
\* gives the link the sanitized name and wraps what it catches into
\* 'Download fehlgeschlagen: ...'.
DownloadRenamedFile ==
    /\ events < MaxEvents
    /\ ~downloadBtn.disabled
    /\ \E error \in {NoError} \cup AppErrors :
        LET shown == IF error = NoError
                         THEN <<Notification("success", "Download erfolgreich",
                                    <<"Datei als \"", Cat(newFileName),
                                      "\" heruntergeladen">>)>>
                         ELSE <<Notification("error", "Download-Fehler",
                                    <<"Download fehlgeschlagen: ", error.message>>)>>
        IN  IF ~currentFile.present
                THEN /\ error = NoError
                     /\ UNCHANGED <<operation, notifications>>
                    /\ UNCHANGED outputs
                ELSE /\ operation' = Ran("downloadRenamedFile", error, shown)
                     /\ notifications' = showAll(notifications, shown)
                     /\ outputs' = IF error /= NoError THEN outputs
                                   ELSE Append(outputs,
                                            Output("download",
                                                   FileHandler_sanitizeFileName(newFileName),
                                                   generate(formData, config).val,
                                                   currentFile.name))
    /\ events' = events + 1
    /\ UNCHANGED <<formData, config, generatorVars, validatorVars, hotfolderVars,
                   currentFile, preview, pending, stored, issued, storeVars, uiVars,
                   downloadBtn, saveToHotfolderBtn, hotfolderPath>>

\* A click on the save-to-hotfolder button, which a disabled button does not
\* take.  saveToHotfolder of the application: nothing without a current file
\* and a handle; HotfolderAPI.saveToHotfolder writes under the sanitized
\* name, and its Error is reported with its message.
SaveToHotfolder ==
    /\ events < MaxEvents
    /\ ~saveToHotfolderBtn.disabled
    /\ \E error \in {NoError, NoPermission} \cup AppErrors :
        LET shown == IF error = NoError
                         THEN <<Notification("success", "In Hotfolder gespeichert",
                                    <<"Datei als \"", Cat(newFileName),
                                      "\" im Hotfolder gespeichert">>)>>
                         ELSE <<Notification("error", "Hotfolder-Fehler",
                                             saveFailure(error))>>
        IN  IF ~currentFile.present \/ ~dirHandle.present
                THEN /\ error = NoError
                     /\ UNCHANGED <<operation, notifications, outputs>>
                ELSE /\ operation' = Ran("saveToHotfolder", error, shown)
                     /\ notifications' = showAll(notifications, shown)
                     /\ outputs' = IF error /= NoError THEN outputs
                                   ELSE Append(outputs,
                                            Output("hotfolder",
                                                   sanitizeFileName(newFileName),
                                                   generate(formData, config).val,
                                                   currentFile.name))
    /\ events' = events + 1
    /\ UNCHANGED <<formData, config, generatorVars, validatorVars, hotfolderVars,
                   currentFile, preview, pending, stored, issued, storeVars, uiVars,
                   downloadBtn, saveToHotfolderBtn, hotfolderPath>>

\* selectHotfolder: HotfolderAPI.selectHotfolder saves and returns the picked
\* handle, returns null when the picker was aborted, and throws otherwise;
\* the application assigns what is returned to this.hotfolderHandle and
\* reports what it catches with a text of its own.  While
\* saveHotfolderHandle does not settle, nothing of this happens.
SelectHotfolder ==
    /\ events < MaxEvents
    /\ \E error \in {NoError, Unsupported} \cup AppErrors :
       \E openFails \in BOOLEAN : \E txFails \in BOOLEAN :
        LET picked == IF error = NoError THEN Handle("granted", "granted") ELSE NoHandle
            put == IF error = NoError
                       THEN saveHotfolderHandle(idb, picked, openFails, txFails)
                       ELSE Settled(FALSE, NoHandle, idb)
            shown == IF error = NoError
                         THEN <<Notification("success", "Hotfolder gew<U+00E4>hlt",
                                             <<"Hotfolder: ", "hotfolder">>)>>
                     ELSE IF error.name = "AbortError" THEN <<>>
                     ELSE <<Notification("error", "Hotfolder-Fehler",
                                <<"Hotfolder konnte nicht ausgew<U+00E4>hlt werden">>)>>
        IN  /\ error /= NoError => ~openFails /\ ~txFails
            /\ idb' = put.database
            /\ IF ~put.settled
                   THEN UNCHANGED <<dirHandle, operation, notifications, hotfolderPath,
                                    downloadBtn, saveToHotfolderBtn>>
                   ELSE /\ dirHandle' = IF error = NoError \/ error.name = "AbortError"
                                            THEN picked
                                            ELSE dirHandle
                        /\ operation' = Ran("selectHotfolder", error, shown)
                        /\ notifications' = showAll(notifications, shown)
                        /\ IF error = NoError
                               THEN /\ hotfolderPath' = "hotfolder"
                                    /\ downloadBtn' =
                                         updateUIState(currentFile, formData, picked).download
                                    /\ saveToHotfolderBtn' =
                                         updateUIState(currentFile, formData, picked).save
                               ELSE UNCHANGED <<hotfolderPath, downloadBtn,
                                                saveToHotfolderBtn>>
    /\ events' = events + 1
    /\ UNCHANGED <<formData, config, generatorVars, validatorVars,
                   step, permission, io, saved,
                   currentFile, preview, pending, stored, issued, loaded, uiVars,
                   outputs>>

\* exportConfiguration
ExportConfiguration ==
    /\ events < MaxEvents
    /\ \E error \in {NoError} \cup AppErrors :
        LET shown == IF error = NoError
                         THEN <<Notification("success", "Export erfolgreich",
                                    <<"Konfiguration wurde heruntergeladen">>)>>
                         ELSE <<Notification("error", "Export-Fehler", <<error.message>>)>>
        IN  /\ operation' = Ran("exportConfiguration", error, shown)
            /\ notifications' = showAll(notifications, shown)
    /\ events' = events + 1
    /\ UNCHANGED <<formData, config, generatorVars, validatorVars, hotfolderVars,
                   currentFile, preview, pending, stored, issued, storeVars, uiVars, domVars>>


-----------------------------------------------------------------------------
(* ConfigManager (modules/configManager.js), after its description: the     *)
(* lists of machines, products and papers, an entry unique by its code      *)
(* within its list, with add, update, delete and import.                    *)

Resolved(cfg) == [threw |-> FALSE, error |-> NoError, val |-> cfg]
Rejected(error) == [threw |-> TRUE, error |-> error, val |-> EmptyConfig]

DuplicateCode == [name |-> "Error", message |-> "Code existiert bereits"]
NotFound == [name |-> "Error", message |-> "Eintrag nicht gefunden"]

Categories == {"machines", "products", "papers"}

\* The positions of the list that hold an entry of this code
Holding(list, code) == {i \in 1..Len(list.items) : list.items[i].code = code}

addItem(cfg, type, item) ==
    IF Holding(cfg[type], item.code) /= {} THEN Rejected(DuplicateCode)
    ELSE Resolved([cfg EXCEPT ![type] = List(Append(cfg[type].items, item))])

updateItem(cfg, type, id, updates) ==
    LET at == Holding(cfg[type], id)
    IN  IF at = {} THEN Rejected(NotFound)
        ELSE IF Holding(cfg[type], updates.code) \ at /= {} THEN Rejected(DuplicateCode)
        ELSE Resolved([cfg EXCEPT ![type] =
                 List([i \in 1..Len(cfg[type].items) |->
                          IF i \in at THEN updates ELSE cfg[type].items[i]])])

deleteItem(cfg, type, id) ==
    IF Holding(cfg[type], id) = {} THEN Rejected(NotFound)
    ELSE Resolved([cfg EXCEPT ![type] =
             List(SelectSeq(cfg[type].items, LAMBDA e : e.code /= id))])

importConfig(text) == Resolved(text)

\* A call of the ConfigManager that a handler awaits
ConfigOp(kind, type, id, item, text) ==
    [kind |-> kind, type |-> type, id |-> id, item |-> item, text |-> text,
     state |-> "pending"]

\* What the ConfigManager answers the call with, on the config it holds
answer(cfg, op) ==
    CASE op.kind = "add"    -> addItem(cfg, op.type, op.item)
      [] op.kind = "edit"   -> updateItem(cfg, op.type, op.id, op.item)
      [] op.kind = "delete" -> deleteItem(cfg, op.type, op.id)
      [] op.kind = "import" -> importConfig(op.text)

-----------------------------------------------------------------------------
(* HeidelbergPDFRenamer: the operations on the configuration.  A handler    *)
(* runs up to its await of the ConfigManager; what follows the await runs   *)
(* when the call settles, and other handlers may run in between.            *)

\* The handler has shown these notifications and awaits nothing
Returned(shown) ==
    /\ notifications' = showAll(notifications, shown)
    /\ UNCHANGED <<pending, issued>>

\* Number of calls of the ConfigManager in a run
MaxIssued == 2

\* The handler awaits the call op
Awaits(op) ==
    /\ Len(issued) < MaxIssued
    /\ issued' = Append(issued, op)
    /\ pending' = pending \cup {Len(issued) + 1}
    /\ UNCHANGED notifications

\* The values of the fields of the settings form and of prompt()
Typed == {Null, <<" ">>, <<"x">>}

\* addMachine, addProduct, addPaper: the trimmed name and code are required
AddItem ==
    /\ events < MaxEvents
    /\ \E type \in Categories : \E name \in Typed \ {Null} : \E code \in Typed \ {Null} :
        IF Trim(name) = <<>> \/ Trim(code) = <<>>
            THEN Returned(<<Notification("error", "Fehler",
                     <<IF type = "papers" THEN "Name, Code und Typ sind erforderlich"
                                          ELSE "Name und Code sind erforderlich">>)>>)
            ELSE Awaits(ConfigOp("add", type, <<>>, Entry(Trim(name), Trim(code)),
                                 EmptyConfig))
    /\ events' = events + 1
    /\ UNCHANGED <<formData, config, generatorVars, validatorVars, hotfolderVars,
                   currentFile, preview, operation, stored,
                   storeVars, uiVars, domVars>>

\* editConfigItem(type, index): the entry is read from the config the
\* application holds; a null of prompt() ends the handler.
EditConfigItem ==
    /\ events < MaxEvents
    /\ \E type \in Categories : \E index \in 1..2 : \E newName \in Typed :
       \E newCode \in IF newName = Null \/ Trim(newName) = <<>> THEN {Null} ELSE Typed :
        LET items == config[type]
        IN  IF ~items.defined \/ index > Len(items.items) \/ newName = Null
                THEN Returned(<<>>)
            ELSE IF Trim(newName) = <<>>
                THEN Returned(<<Notification("error", "Fehler",
                                             <<"Name darf nicht leer sein">>)>>)
            ELSE IF newCode = Null
                THEN Returned(<<>>)
            ELSE IF Trim(newCode) = <<>>
                THEN Returned(<<Notification("error", "Fehler",
                                             <<"Code darf nicht leer sein">>)>>)
            ELSE Awaits(ConfigOp("edit", type, items.items[index].code,
                                 Entry(Trim(newName), toUpperCase(Trim(newCode))),
                                 EmptyConfig))
    /\ events' = events + 1
    /\ UNCHANGED <<formData, config, generatorVars, validatorVars, hotfolderVars,
                   currentFile, preview, operation, stored,
                   storeVars, uiVars, domVars>>

\* deleteConfigItem(type, index)
DeleteConfigItem ==
    /\ events < MaxEvents
    /\ \E type \in Categories : \E index \in 1..2 : \E confirmed \in BOOLEAN :
        LET items == config[type]
        IN  IF ~items.defined \/ index > Len(items.items) \/ ~confirmed
                THEN Returned(<<>>)
                ELSE Awaits(ConfigOp("delete", type, items.items[index].code,
                                     items.items[index], EmptyConfig))
    /\ events' = events + 1
    /\ UNCHANGED <<formData, config, generatorVars, validatorVars, hotfolderVars,
                   currentFile, preview, operation, stored,
                   storeVars, uiVars, domVars>>

\* What the files picked for an import hold
Imports == {OtherConfig}

\* importConfiguration: the handler of the picked file awaits file.text() and
\* then importConfig(text).
ImportConfiguration ==
    /\ events < MaxEvents
    /\ \E picked \in BOOLEAN : \E text \in Imports :
        IF ~picked THEN Returned(<<>>)
        ELSE Awaits(ConfigOp("import", "", <<>>, Entry(<<>>, <<>>), text))
    /\ events' = events + 1
    /\ UNCHANGED <<formData, config, generatorVars, validatorVars, hotfolderVars,
                   currentFile, preview, operation, stored,
                   storeVars, uiVars, domVars>>

\* The title of the notification of a config operation that was rejected
FailureTitle(op) == IF op.kind = "import" THEN "Import-Fehler" ELSE "Fehler"

\* The notification of a config operation that went through
Done(op) ==
    CASE op.kind = "add" ->
            Notification("success",
                CASE op.type = "machines" -> "Maschine hinzugef<U+00FC>gt"
                  [] op.type = "products" -> "Produkt hinzugef<U+00FC>gt"
                  [] op.type = "papers"   -> "Papier hinzugef<U+00FC>gt",
                <<Cat(op.item.name), " (", Cat(op.item.code), ") wurde hinzugef<U+00FC>gt">>)
      [] op.kind = "edit" ->
            Notification("success", "Aktualisiert",
                         <<Cat(op.item.name), " wurde aktualisiert">>)
      [] op.kind = "delete" ->
            Notification("success", "Gel<U+00F6>scht",
                         <<Cat(op.item.name), " wurde gel<U+00F6>scht">>)
      [] op.kind = "import" ->
            Notification("success", "Import erfolgreich",
                         <<"Konfiguration wurde importiert">>)

\* What the storage of the ConfigManager fails with
StorageErrors == {e \in Errors : e.name = "QuotaExceededError"}

\* The awaited call of a handler settles: the ConfigManager answers on the
\* config it holds at that moment, or storage fails; the handler assigns the
\* answer to this.config and reports, or reports what it caught.
Settle ==
    \E i \in pending : \E error \in {NoError} \cup StorageErrors :
        LET op == issued[i]
            res == IF error /= NoError THEN Rejected(error) ELSE answer(stored, op)
            shown == IF res.threw
                         THEN <<Notification("error", FailureTitle(op),
                                             <<res.error.message>>)>>
                         ELSE <<Done(op)>>
        IN  /\ stored' = IF res.threw THEN stored ELSE res.val
            /\ config' = IF res.threw THEN config ELSE res.val
            /\ issued' = [issued EXCEPT ![i].state = IF res.threw THEN "failed" ELSE "done"]
            /\ pending' = pending \ {i}
            /\ operation' = Ran(op.kind, res.error, shown)
            /\ notifications' = showAll(notifications, shown)
            /\ UNCHANGED <<formData, generatorVars, validatorVars, hotfolderVars,
                           currentFile, preview, events,
                           storeVars, uiVars, domVars>>

\* After init(): the config is loaded, and loadSavedHotfolder has restored the
\* handle of an earlier session or none.
InitApp ==
    /\ formData = ExampleForm
    /\ config = ExampleConfig
    /\ NoGenerator
    /\ NoSwissNumber
    /\ NoValidator
    /\ dirHandle \in {NoHandle, Handle("granted", "granted")}
    /\ step = "idle"
    /\ permission = "unknown"
    /\ io = <<>>
    /\ saved = NotSaved
    /\ currentFile = NoFile
    /\ preview = updateProductCode(formData, config)
    /\ notifications = <<>>
    /\ operation = NoOperation
    /\ pending = {}
    /\ stored = ExampleConfig
    /\ issued = <<>>
    /\ events = 0
    /\ idb \in IF dirHandle.present THEN {Database("handles", dirHandle)}
               ELSE {Database("empty", NoHandle), Database("handles", NoHandle)}
    /\ loaded = NotLoaded
    /\ NoUi
    /\ downloadBtn = updateUIState(currentFile, formData, dirHandle).download
    /\ saveToHotfolderBtn = updateUIState(currentFile, formData, dirHandle).save
    /\ hotfolderPath = IF dirHandle.present THEN "hotfolder" ELSE NoHotfolderPath
    /\ outputs = <<>>

NextApp ==
    \/ ProcessFile
    \/ RemoveFile
    \/ DownloadRenamedFile
    \/ SaveToHotfolder
    \/ SelectHotfolder
    \/ ExportConfiguration
    \/ AddItem
    \/ EditConfigItem
    \/ DeleteConfigItem
    \/ ImportConfiguration
    \/ Settle

SpecApp == InitApp /\ [][NextApp]_vars


\* The message has the raw error message among its parts
Carries(message, raw) == \E i \in 1..Len(message) : message[i] = raw

\* C17: an operation that met an exception has shown exactly one error
\* notification, that notification carries the raw message of the exception,
\* and the operation was attempted once.
C17_ErrorsSurfaced ==
    operation.raised =>
        /\ operation.attempts = 1
        /\ Len(operation.shown) = 1
        /\ operation.shown[1].type = "error"
        /\ Carries(operation.shown[1].message, operation.error.message)

\* The config after the calls that went through, applied in the order the
\* user issued them to the config the application started with
RECURSIVE InOrder(_, _)
InOrder(cfg, ops) ==
    IF ops = <<>> THEN cfg
    ELSE LET res == answer(cfg, Head(ops))
         IN  InOrder(IF Head(ops).state = "done" /\ ~res.threw THEN res.val ELSE cfg,
                     Tail(ops))

\* C18: at most one config-mutating operation is in flight, and once none is,
\* the config the application holds is the one the completed operations
\* make in the order they were issued.
C18_OneAtATime ==
    /\ Cardinality(pending) <= 1
    /\ pending = {} => config = InOrder(ExampleConfig, issued)


-----------------------------------------------------------------------------
(* UIManager: the list of notifications and their timers                     *)
(* (src/assets/js/modules/ui.js)                                             *)

\* What createNotificationElement returns, as far as the list is concerned.
\* The id is made of Date.now() and nine random characters; two
\* notifications of a run have different ids.  timed says whether
\* setTimeout was called for it.
Shown(id, duration) == [id |-> id, timed |-> duration > 0]

\* The ids of the notifications of a list
Ids(list) == {list[i].id : i \in 1..Len(list)}

\* The list and the pending timeouts
Ui(list, timeouts) == [list |-> list, timers |-> timeouts]

\* A removeNotification that returns at once.
removeNone(ui, notificationId) == ui

\* A removeNotification that takes the oldest notification, whatever the id.
removeOldest(ui, notificationId) ==
    IF ui.list = <<>> THEN ui
    ELSE Ui(Tail(ui.list), ui.timers \ {ui.list[1].id})

\* removeNotification: nothing for an id that is not in the list; otherwise
\* the timeout of the notification is cleared and it leaves the list.
removeNotification(ui, notificationId) ==
    LET found == {i \in 1..Len(ui.list) : ui.list[i].id = notificationId}
    IN  IF found = {} THEN ui
        ELSE LET index == CHOOSE i \in found : \A j \in found : i <= j
             IN  Ui([i \in 1..(Len(ui.list) - 1) |->
                        IF i < index THEN ui.list[i] ELSE ui.list[i + 1]],
                    ui.timers \ {notificationId})

\* clearAllNotifications: removeNotification for each of a copy of the list
RECURSIVE removeEach(_, _)
removeEach(ui, copy) ==
    IF copy = <<>> THEN ui
    ELSE removeEach(removeNotification(ui, Head(copy).id), Tail(copy))

\* Number of notifications shown in a run
MaxShown == 6

\* The durations notifications are shown with: permanent, the default
Durations == {0, 5000}

\* showNotification(type, title, message, duration)
ShowNotification ==
    /\ events < MaxShown
    /\ \E duration \in Durations :
        LET notification == Shown(events + 1, duration)
            pushed == Ui(Append(notifications, notification),
                         IF duration > 0 THEN timers \cup {notification.id} ELSE timers)
            ui == IF Len(pushed.list) > MaxNotifications
                      THEN removeNotification(pushed, pushed.list[1].id)
                      ELSE pushed
        IN  /\ notifications' = ui.list
            /\ timers' = ui.timers
            /\ last' = [op |-> "show", id |-> notification.id, before |-> notifications]
    /\ events' = events + 1
    /\ UNCHANGED <<formData, config, generatorVars, validatorVars, hotfolderVars,
                   currentFile, preview, operation, pending, stored, issued,
                   storeVars, domVars>>

\* removeNotification(id) by the close button of a notification, which stays
\* in the document while it is animated out, or by another caller
RemoveNotification ==
    /\ \E id \in 1..events :
        LET ui == removeNotification(Ui(notifications, timers), id)
        IN  /\ notifications' = ui.list
            /\ timers' = ui.timers
            /\ last' = [op |-> "remove", id |-> id, before |-> notifications]
    /\ UNCHANGED <<formData, config, generatorVars, validatorVars, hotfolderVars,
                   currentFile, preview, operation, pending, stored, issued, events,
                   storeVars, domVars>>

\* clearAllNotifications()
ClearAllNotifications ==
    /\ LET ui == removeEach(Ui(notifications, timers), notifications)
       IN  /\ notifications' = ui.list
           /\ timers' = ui.timers
    /\ last' = [op |-> "clear", id |-> 0, before |-> notifications]
    /\ UNCHANGED <<formData, config, generatorVars, validatorVars, hotfolderVars,
                   currentFile, preview, operation, pending, stored, issued, events,
                   storeVars, domVars>>

\* The timeout of a notification fires: removeNotification(notification.id)
TimerFires ==
    /\ \E id \in timers :
        LET ui == removeNotification(Ui(notifications, timers \ {id}), id)
        IN  /\ notifications' = ui.list
            /\ timers' = ui.timers
            /\ last' = [op |-> "timer", id |-> id, before |-> notifications]
    /\ UNCHANGED <<formData, config, generatorVars, validatorVars, hotfolderVars,
                   currentFile, preview, operation, pending, stored, issued, events,
                   storeVars, domVars>>

InitNotify ==
    /\ formData = ExampleForm
    /\ config = ExampleConfig
    /\ NoGenerator
    /\ NoSwissNumber
    /\ NoValidator
    /\ NoHotfolder
    /\ NoApp

NextNotify ==
    \/ ShowNotification
    \/ RemoveNotification
    \/ ClearAllNotifications
    \/ TimerFires

SpecNotify == InitNotify /\ [][NextNotify]_vars

\* Timeouts that are pending do fire
SpecNotifyFair == SpecNotify /\ WF_vars(TimerFires)

\* C22: the list holds at most 5 notifications; showing a sixth removes the
\* oldest; every pending timer belongs to a notification of the list, so
\* none fires for a removed one, and removing an id that is not in the list
\* changes nothing.
C22_AtMostFive ==
    /\ Len(notifications) <= 5
    /\ (last.op = "show" /\ Len(last.before) = 5) =>
           /\ notifications[5].id = last.id
           /\ \A i \in 1..4 : notifications[i] = last.before[i + 1]
    /\ timers \subseteq Ids(notifications)
    /\ (last.op \in {"remove", "timer"} /\ last.id \notin Ids(last.before)) =>
           notifications = last.before

\* A sixth notification was shown while five were listed.
C22_Witness ==
    /\ last.op = "show"
    /\ Len(last.before) = 5
    /\ Len(notifications) = 5
    /\ last.before[1].id \notin Ids(notifications)


\* The permanent notifications of the list before the last operation that
\* the list no longer holds
PermanentGone ==
    {i \in 1..Len(last.before) :
        ~last.before[i].timed /\ last.before[i].id \notin Ids(notifications)}

PermanentUntilRemovedOrEvicted ==
    \A i \in PermanentGone :
        \/ last.op = "remove" /\ last.id = last.before[i].id
        \/ last.op = "clear"
        \/ last.op = "show" /\ Len(last.before) = MaxNotifications /\ i = 1

\* The notifications of the list that were shown with a duration above 0
TimedListed == {i \in 1..Len(notifications) : notifications[i].timed}

-----------------------------------------------------------------------------
(* HeidelbergPDFRenamer: the buttons, the file and the form *)

\* After init() with the form empty or filled in as in the example
InitUI ==
    /\ formData \in {BlankForm, ExampleForm}
    /\ config = ExampleConfig
    /\ NoGenerator
    /\ NoSwissNumber
    /\ NoValidator
    /\ dirHandle \in {NoHandle, Handle("granted", "granted")}
    /\ step = "idle"
    /\ permission = "unknown"
    /\ io = <<>>
    /\ saved = NotSaved
    /\ currentFile = NoFile
    /\ preview = updateProductCode(formData, config)
    /\ notifications = <<>>
    /\ operation = NoOperation
    /\ pending = {}
    /\ stored = ExampleConfig
    /\ issued = <<>>
    /\ events = 0
    /\ idb \in IF dirHandle.present THEN {Database("handles", dirHandle)}
               ELSE {Database("empty", NoHandle), Database("handles", NoHandle)}
    /\ loaded = NotLoaded
    /\ NoUi
    /\ downloadBtn = updateUIState(currentFile, formData, dirHandle).download
    /\ saveToHotfolderBtn = updateUIState(currentFile, formData, dirHandle).save
    /\ hotfolderPath = IF dirHandle.present THEN "hotfolder" ELSE NoHotfolderPath
    /\ outputs = <<>>

\* The events on the file, the form, the hotfolder and the two buttons.  A
\* change of the paper type is a FormEvent of papierart: handlePaperTypeChange
\* ends in updateProductCode as the listener of the form does.
NextUI ==
    \/ ProcessFile
    \/ RemoveFile
    \/ FormEvent
    \/ SelectHotfolder
    \/ DownloadRenamedFile
    \/ SaveToHotfolder

SpecUI == InitUI /\ [][NextUI]_vars

\* C24: the download button is enabled exactly when a file is loaded and
\* the eight form fields are non-empty, and the save-to-hotfolder button
\* exactly when a hotfolder handle is set as well.
C24_ButtonsFollowState ==
    /\ ~downloadBtn.disabled <=> (currentFile.present /\ isFormValid(formData))
    /\ ~saveToHotfolderBtn.disabled <=>
           (currentFile.present /\ isFormValid(formData) /\ dirHandle.present)

\* C25: every download and every save into the hotfolder went under a name
\* made of a non-empty generated product code followed by the name of the
\* file, never under the name of the file alone.
C25_NeverUnprefixed ==
    \A i \in 1..Len(outputs) :
        /\ outputs[i].code /= <<>>
        /\ outputs[i].name = outputs[i].code \o outputs[i].original

\* The step is a selectHotfolder whose picker was aborted
Aborted ==
    /\ events' = events + 1
    /\ operation'.op = "selectHotfolder"
    /\ operation'.error.name = "AbortError"
    /\ operation' /= operation \/ dirHandle' /= dirHandle

\* C27: aborting the directory picker leaves the hotfolder handle of the
\* application, the handle kept in IndexedDB, the displayed path and the
\* save-to-hotfolder button as they were, and shows no notification.
C27_AbortChangesNothing ==
    [][Aborted => UNCHANGED <<dirHandle, idb, hotfolderPath, saveToHotfolderBtn,
                              notifications>>]_vars


-----------------------------------------------------------------------------
(* The name under which the file leaves the application *)

\* Machine, paper and order values with characters the sanitizers act on
NameValues(f) ==
    CASE f = "maschine"       -> {<<"C", "X", "_">>, <<"C", ":", "X">>, <<"C", "\t", "X">>}
      [] f = "papiername"     -> {<<"O", "_", "_", "9", "0">>}
      [] f = "auftragsnummer" -> {<<".", "A", "1">>}
      [] OTHER                -> {}

\* The example form, or the example with one such value
NameForms ==
    {ExampleForm} \cup
    UNION {{[ExampleForm EXCEPT ![f] = v] : v \in NameValues(f)} : f \in Fields}

\* Files that validateFile accepts
NameFiles ==
    {f \in {File(1, "application/pdf", Pdf(<<"a">>)),
            File(1, "application/pdf", Pdf(<<"a", "_", "b">>)),
            File(2, "application/pdf", Pdf(<<"a", " ", "b">>))} :
        validateFile(f).valid}

\* A file is loaded, the form is filled in and a hotfolder is chosen
InitNames ==
    /\ formData \in NameForms
    /\ config = ExampleConfig
    /\ NoGenerator
    /\ NoSwissNumber
    /\ NoValidator
    /\ dirHandle = Handle("granted", "granted")
    /\ step = "idle"
    /\ permission = "unknown"
    /\ io = <<>>
    /\ saved = NotSaved
    /\ currentFile \in NameFiles
    /\ preview = updateProductCode(formData, config)
    /\ notifications = <<>>
    /\ operation = NoOperation
    /\ pending = {}
    /\ stored = ExampleConfig
    /\ issued = <<>>
    /\ events = 0
    /\ idb = Database("handles", dirHandle)
    /\ loaded = NotLoaded
    /\ NoUi
    /\ downloadBtn = updateUIState(currentFile, formData, dirHandle).download
    /\ saveToHotfolderBtn = updateUIState(currentFile, formData, dirHandle).save
    /\ hotfolderPath = "hotfolder"
    /\ outputs = <<>>

NextNames == DownloadRenamedFile \/ SaveToHotfolder

SpecNames == InitNames /\ [][NextNames]_vars

\* s starts with p
StartsWith(s, p) == Len(s) >= Len(p) /\ SubSeq(s, 1, Len(p)) = p

\* C26: every file that left the application under a non-empty code has a
\* name that starts with the unchanged code, and for its code and file name
\* the two sanitizers give the same name.
C26_CodeUnchanged ==
    \A i \in 1..Len(outputs) :
        outputs[i].code /= <<>> =>
            LET fileName == outputs[i].code \o outputs[i].original
            IN  /\ StartsWith(outputs[i].name, outputs[i].code)
                /\ FileHandler_sanitizeFileName(fileName) = sanitizeFileName(fileName)


-----------------------------------------------------------------------------
(* Validator and ProductCodeGenerator on the same form data *)

\* The values put into a field besides the example's: values the Validator
\* accepts and values it rejects.
AgreeValues(f) ==
    CASE f = "auftragsnummer" ->
            {<<"A", "7">>, <<" ", "A", "7", " ">>, <<"7">>}
      [] f = "kunde" ->
            {<<"&">>, <<"M", " ", "&", " ", "M">>, <<".", "&">>, <<" ", "\t">>}
      [] f = "auftragsposition" ->
            {<<"0">>, <<" ", "2", " ">>, <<"1", "0", "0", "0">>}
      [] f = "maschine" ->
            {<<"Z", "Z">>, <<"z">>}
      [] f = "auflage" ->
            {<<"1", "2", " ", "0", "0", "0">>, <<"0", "0", "7">>, <<"0">>,
             <<"1", "'", "0", "0", "0", "'", "0", "0", "0">>, <<"1", "2", "a">>}
      [] f = "produkt" ->
            {<<"Z", "Z">>}
      [] f = "papierart" ->
            {Gestrichen, Custom}
      [] f = "papiername" ->
            {<<"Q", "Q">>, <<"Q", ".">>}

\* The example form with at most two fields replaced.
AgreeForms ==
    {ExampleForm}
        \cup UNION {{[ExampleForm EXCEPT ![f] = v] : v \in AgreeValues(f)} : f \in Fields}
        \cup UNION {{[ExampleForm EXCEPT ![f] = v, ![g] = w] :
                        v \in AgreeValues(f), w \in AgreeValues(g)} :
                    f \in Fields, g \in Fields}

InitAgree ==
    /\ formData \in AgreeForms
    /\ config \in {ExampleConfig, EmptyConfig}
    /\ NoGenerator
    /\ NoHotfolder
    /\ NoApp
    /\ NoSwissNumber
    /\ NoValidator

NextAgree == ValidateForm \/ Generate

SpecAgree == InitAgree /\ [][NextAgree]_vars

\* What generate joins into the code, component by component: the operands of
\* the template literals of buildAuftragsTeil, buildKundenTeil,
\* buildMaschineTeil, buildAuflageTeil and buildPapierTeil.
Components(fd, cfg) ==
    [order     |-> LET auftragsnummer == Trim(fd.auftragsnummer)
                   IN  IF auftragsnummer /= <<>> /\ Head(auftragsnummer) = "A"
                          THEN auftragsnummer ELSE <<"A">> \o auftragsnummer,
     position  |-> Trim(fd.auftragsposition),
     customer  |-> sanitizeText(fd.kunde),
     product   |-> getProductCode(fd.produkt, cfg),
     machine   |-> getMachineCode(fd.maschine, cfg),
     paperTag  |-> getPaperTypeCode(fd.papierart),
     paperCode |-> getPaperCode(fd.papiername, cfg),
     quantity  |-> buildAuflageTeil(fd).val]

\* `${order}-${position}#${customer}-${product}#${machine}_${paperTag}_${paperCode}#${quantity}#D-${paperCode}#`
Joined(c) ==
    c.order \o <<"-">> \o c.position \o <<"#">>
    \o c.customer \o <<"-">> \o c.product \o <<"#">>
    \o c.machine \o <<"_">> \o c.paperTag \o <<"_">> \o c.paperCode \o <<"#">>
    \o c.quantity \o <<"#">>
    \o <<"D", "-">> \o c.paperCode \o <<"#">>

\* The number the Validator accepted as the quantity: numValue of the
\* validateAuflage call that validateField makes on the trimmed value.
AcceptedQuantity(fd) == validateAuflage(Trim(fd.auflage)).numericValue

\* validateForm has returned valid for the form data and generate has run.
ValidAndGenerated ==
    /\ validation.called /\ fieldName = "" /\ ~validation.threw
    /\ validation.val.valid
    /\ result.called

\* C28: for a form-data record that validateForm finds valid, generate
\* returns a non-empty code, none of the eight components joined into the
\* code is empty, and the quantity is the number validateAuflage accepted.
C28_ValidatorAndGeneratorAgree ==
    ValidAndGenerated
    => LET c == Components(formData, config)
       IN  /\ result.val /= <<>>
           /\ result.val = Joined(c)
           /\ \A k \in DOMAIN c : c[k] /= <<>>
           /\ c.quantity = NumberToString(AcceptedQuantity(formData))

\* C28 without the customer: the other seven components are filled in and the
\* quantity is the accepted number.
C28_AgreeButCustomer ==
    ValidAndGenerated
    => LET c == Components(formData, config)
       IN  /\ result.val /= <<>>
           /\ result.val = Joined(c)
           /\ \A k \in DOMAIN c \ {"customer"} : c[k] /= <<>>
           /\ c.quantity = NumberToString(AcceptedQuantity(formData))

=============================================================================
